---- MODULE Spec2Model ----
(***************************************************************************)
(* A model of dato: validators that timestamp, sign and store records, and *)
(* the client coordinator that fans one request out to every connected     *)
(* validator, verifies the replies and certifies a quorum of them.         *)
(*                                                                         *)
(* Keccak256 is modelled as an injective function of the bytes fed to the  *)
(* hasher: a digest is the byte string that was hashed.  A BLS signature   *)
(* is the pair (signer, signed digest); an aggregate signature is the bag  *)
(* of the signatures added to it.                                          *)
(***************************************************************************)
EXTENDS Integers, Sequences, FiniteSets, Bags, TLC

\* ------------------------------------------------------------------ bounds
\* Validators of the registry; validator i listens for index i.
NumValidators == 3
\* Validators of the registry in the behaviours of Client::write alone.
NumValidatorsWrite == 4
\* Client operations per behaviour of Client::write alone.
MaxOpsWrite == 1
\* Wall-clock readings range over 1..MaxTime (milliseconds).
MaxTime == 2
\* Client operations per behaviour.
MaxOps == 2
\* Forged replies per client operation.
MaxFaults == 1
\* Capacity of each namespace bucket of the stores under test.
StoreCap == 2

\* ------------------------------------------------------- program constants
U128Bytes == 16
PublisherQueueCap == 512
RecordSubCap == 512
CertifiedRecordSubCap == 512
RecordsByIdCap == 1024

Indices == 0 .. (NumValidators - 1)
WriteIndices == 0 .. (NumValidatorsWrite - 1)
\* Every validator process that exists.
AllIndices == Indices \cup WriteIndices
Times == 1 .. MaxTime

\* ------------------------------------------------------------ primitives
\* u128::to_le_bytes, for the timestamps of the model (all below 2^16).
to_le_bytes(t) ==
    [i \in 1 .. U128Bytes |->
        IF i = 1 THEN t % 256 ELSE IF i = 2 THEN (t \div 256) % 256 ELSE 0]

Namespaces == { <<116>> }
\* The namespaces a store may hold a bucket for: one more than the client uses.
OtherNamespace == <<117>>
StoreNamespaces == Namespaces \cup { OtherNamespace }
M1 == <<7>>
\* A message whose bytes start with the little-endian bytes of timestamp 1.
M2 == to_le_bytes(1) \o M1
Messages == { M1, M2 }

\* Message::digest / Record::message_digest: Keccak256(namespace || message).
message_digest(message, namespace) == namespace \o message

\* Message::record_digest / Record::digest:
\* Keccak256(namespace || timestamp_le || message).
record_digest(message, namespace, timestamp) ==
    namespace \o to_le_bytes(timestamp) \o message

Record_digest(record, namespace) ==
    record_digest(record.message, namespace, record.timestamp)

\* UnavailableMessage::digest: Keccak256(msg_id || timestamp_le).
UnavailableMessage_digest(unavailable) ==
    unavailable.msg_id \o to_le_bytes(unavailable.timestamp)

B256_ZERO == <<0>>
MsgIds == { message_digest(m, ns) : m \in Messages, ns \in Namespaces } \cup { B256_ZERO }

\* The BLS key pair of validator v: secret key v, public key v.
SecretKey(v) == v
PublicKey(v) == v

sign_with_prefix(key, data) == [signer |-> key, digest |-> data]

verify_signature(signature, pubkey, digest) ==
    signature.signer = pubkey /\ signature.digest = digest

\* Option<T>
None == [tag |-> "None"]
Some(x) == [tag |-> "Some", val |-> x]

\* AggregateSignature::from_signature and AggregateSignature::add_signature.
from_signature(signature) == SetToBag({signature})
add_signature(q, signature) == q (+) SetToBag({signature})

\* The running aggregate of the client loops: initialise on the first vote.
AggregateAdd(quorum_signature, signature) ==
    IF quorum_signature.tag = "Some"
    THEN Some(add_signature(quorum_signature.val, signature))
    ELSE Some(from_signature(signature))

\* has_reached_quorum, with Rust's truncating integer division.
has_reached_quorum(total_validators, votes) ==
    IF total_validators < 3
    THEN votes = total_validators
    ELSE votes >= (2 * total_validators) \div 3

\* Vec::sort on timestamps.
sort(ts) == SortSeq(ts, LAMBDA a, b : a < b)

\* Mutant: the median is taken of the vector as it stands.
certified_timestamp_Unsorted(timestamps) ==
    LET s == timestamps
        n == Len(s)
        mid == n \div 2
    IN  [timestamps |-> s,
         median |-> IF n % 2 = 0 THEN (s[mid] + s[mid + 1]) \div 2 ELSE s[mid + 1]]

\* CertifiedRecord::certified_timestamp: sorts the vector in place and
\* returns the median. The pair is (the vector after the call, the value
\* returned). Sequences are 1-based: Rust's [mid - 1] and [mid] are s[mid]
\* and s[mid + 1].
certified_timestamp(timestamps) ==
    LET s == sort(timestamps)
        n == Len(s)
        mid == n \div 2
    IN  [timestamps |-> s,
         median |-> IF n % 2 = 0 THEN (s[mid] + s[mid + 1]) \div 2 ELSE s[mid + 1]]

\* CertifiedUnavailableMessage::certified_timestamp.
unavailable_certified_timestamp(timestamps) ==
    LET s == sort(timestamps)
        n == Len(s)
    IN  [timestamps |-> s,
         median |-> IF n % 2 = 0
                    THEN LET mid == n \div 2 IN (s[mid] + s[mid + 1]) \div 2
                    ELSE s[(n \div 2) + 1]]

\* ----------------------------------------------------------------- store
\* hashmore::FIFOMap::insert on a map held as its (key, value) pairs in
\* insertion order: an existing key is overwritten in place; a full map
\* first evicts its oldest entry.
FIFOInsert(entries, key, value) ==
    IF \E k \in 1 .. Len(entries) : entries[k][1] = key
    THEN [k \in 1 .. Len(entries) |->
            IF entries[k][1] = key THEN <<key, value>> ELSE entries[k]]
    ELSE IF Len(entries) >= StoreCap
         THEN Append(Tail(entries), <<key, value>>)
         ELSE Append(entries, <<key, value>>)

\* Mutant: the bucket is keyed by the message digest.
write_one_ByMessage(record_maps, namespace, record) ==
    [record_maps EXCEPT ![namespace] =
        FIFOInsert(@, message_digest(record.message, namespace), record)]

\* Mutant: the key also tells the signer of the record.
write_one_KeyedBySigner(record_maps, namespace, record) ==
    [record_maps EXCEPT ![namespace] =
        FIFOInsert(@, Record_digest(record, namespace) \o <<record.signature.signer>>,
                   record)]

\* InMemoryStore::write_one.  A namespace without a bucket holds <<>>.
write_one(record_maps, namespace, record) ==
    [record_maps EXCEPT ![namespace] =
        FIFOInsert(@, Record_digest(record, namespace), record)]

\* InMemoryStore::read_message: the record stored under key msg_id.
store_read_message(record_maps, namespace, msg_id) ==
    LET existing == record_maps[namespace]
        hits == { k \in 1 .. Len(existing) : existing[k][1] = msg_id }
    IN  IF hits = {} THEN None
        ELSE Some(existing[CHOOSE k \in hits : TRUE][2])

\* Mutant: the end of the range is excluded.
store_read_range_Exclusive(record_maps, namespace, start, end) ==
    SelectSeq([k \in 1 .. Len(record_maps[namespace]) |-> record_maps[namespace][k][2]],
              LAMBDA record : record.timestamp >= start /\ record.timestamp < end)

\* InMemoryStore::read_range.
store_read_range(record_maps, namespace, start, end) ==
    SelectSeq([k \in 1 .. Len(record_maps[namespace]) |-> record_maps[namespace][k][2]],
              LAMBDA record : record.timestamp >= start /\ record.timestamp <= end)

\* ------------------------------------------------------------------ state
VARIABLES
    \* Validator v: InMemoryStore::record_maps, active_subscriptions and the
    \* queue feeding the publisher socket.
    store, active_subscriptions, publisher_queue,
    \* Client::validators (index -> public key); validator_sockets has the
    \* same keys, the socket of index i being connected to validator i.
    validators,
    \* The client operation in progress: where it is, the request it
    \* serialized, and the per-validator request futures of `responses`.
    pc, request, responses,
    \* Locals of Client::write.
    timestamps, quorum_signature, votes,
    \* Locals of Client::read_message.
    available_timestamps, unavailable_timestamps,
    available_quorum_signature, unavailable_quorum_signature,
    available_votes, unavailable_votes, message,
    \* Locals of Client::read: the signature-verification tasks spawned on the
    \* JoinSet (index -> task) and the log merged so far.
    verify_tasks, final_log,
    \* What the last operation returned, how many operations were started,
    \* and how many replies of the operation in progress were forged.
    result, ops, faults,
    \* History: the (namespace, message) pairs for which Client::write has
    \* returned a CertifiedRecord.
    certified,
    \* History: the (namespace, record) pairs handed to write_one of
    \* validator 0's store when it is driven directly, in call order.
    inserted,
    \* History: the (topic, payload) pairs validator v handed to its
    \* publisher socket.
    published,
    \* Client::subscribe: the publisher sockets collected from the replies
    \* (by validator index), and the state moved into the spawned task: the
    \* namespace it subscribes to, the publishers its SubSocket is connected
    \* and subscribed to, the publications of validator v that the SubSocket
    \* has not yielded yet, the Record channel, and (history) the records
    \* the returned stream has yielded.
    validator_publisher_sockets, sub_topic, sub_connected, sub_socket,
    record_sub, delivered,
    \* The two ends of the Record channel: the spawned task has returned; the
    \* consumer has dropped the stream.
    sub_task_done, record_closed,
    \* Client::subscribe_certified: validators_count of the call (None when
    \* subscribe_certified was not called; the aggregation task runs once the
    \* inner subscribe has returned), the task's map from message digest to
    \* the records seen, the CertifiedRecord it is sending, the
    \* CertifiedRecord channel, whether the consumer has dropped the
    \* certified stream, and (history) what that stream has yielded.
    validators_count, records_by_id, sending, certified_record_sub,
    certified_closed, certified_delivered,
    \* (History) whether a send on the CertifiedRecord channel has returned Err.
    send_failed,
    \* (History) how many requests the validators have logged as unparsable.
    parse_errors,
    \* (History) the (namespace, record) pairs that were in a publisher queue
    \* channel when the poll that created it returned and dropped it.
    stranded,
    \* The two validator sets a quorum-intersection question is asked about.
    quorum_sets,
    \* Client::read_certified: the records of the Log still to be looked up,
    \* the CertifiedLog built so far (None while read_certified is not
    \* running), and (history) the outcome of each ReadMessage it made.
    log_records, certified_log, read_messages

validator_vars == <<store, active_subscriptions, publisher_queue>>
write_locals == <<timestamps, quorum_signature, votes>>
read_message_locals ==
    <<available_timestamps, unavailable_timestamps, available_quorum_signature,
      unavailable_quorum_signature, available_votes, unavailable_votes, message>>
read_locals == <<verify_tasks, final_log>>
sub_vars == <<validator_publisher_sockets, sub_topic, sub_connected, sub_socket,
              record_sub, delivered>>
task_vars == <<sub_task_done, record_closed>>
cert_vars == <<validators_count, records_by_id, sending, certified_record_sub,
               certified_closed, certified_delivered>>
hist_vars == <<send_failed, parse_errors, stranded>>
rc_vars == <<log_records, certified_log, read_messages>>
more_vars == <<task_vars, cert_vars, hist_vars, quorum_sets, rc_vars>>
aux_vars == <<inserted, published, sub_vars, more_vars>>
vars == <<store, active_subscriptions, publisher_queue, validators, pc, request,
          responses, timestamps, quorum_signature, votes, available_timestamps,
          unavailable_timestamps, available_quorum_signature,
          unavailable_quorum_signature, available_votes, unavailable_votes,
          message, verify_tasks, final_log, result, ops, faults, certified,
          inserted, published, validator_publisher_sockets, sub_topic,
          sub_connected, sub_socket, record_sub, delivered, sub_task_done,
          record_closed, validators_count, records_by_id, sending,
          certified_record_sub, certified_closed, certified_delivered,
          send_failed, parse_errors, stranded, quorum_sets, log_records,
          certified_log, read_messages>>

\* -------------------------------------------------------------- wire data
\* serde_json bytes, by the type of the value that was serialized.
Garbage == [type |-> "Garbage"]
to_vec(type, value) == [type |-> type, val |-> value]
from_slice(type, bytes) == IF bytes.type = type THEN Some(bytes.val) ELSE None

NoBytes == [type |-> "NoBytes"]
\* A request future: "sent" (request on the wire), "replied" (the validator
\* responded with `bytes`), "taken" (yielded Some((index, bytes)) to the loop,
\* which counted it as a vote), "skipped" (yielded, and the loop went on
\* without counting it), "failed" (yielded None), "dropped" (dropped with the
\* stream when the operation returned).
Future(st, bytes) == [st |-> st, bytes |-> bytes]

NoRequest == [type |-> "NoRequest"]
NoResult == [tag |-> "NoResult"]
Ok(x) == [tag |-> "Ok", val |-> x]
Err(e) == [tag |-> "Err", err |-> e]
Panic(what) == [tag |-> "Panic", what |-> what]

\* Mutant: one slot per vote a quorum needs.
zeroes_Quorum(len) == [k \in 1 .. ((2 * len) \div 3) |-> 0]

\* vec![Timestamp::default(); len]
zeroes(len) == [k \in 1 .. len |-> 0]

n_validators == Cardinality(DOMAIN validators)

Init ==
    /\ store = [v \in AllIndices |-> [ns \in StoreNamespaces |-> <<>>]]
    /\ active_subscriptions = [v \in AllIndices |-> {}]
    /\ publisher_queue = [v \in AllIndices |-> <<>>]
    /\ validators = <<>>
    /\ pc = "idle"
    /\ request = NoRequest
    /\ responses = <<>>
    /\ timestamps = <<>>
    /\ quorum_signature = None
    /\ votes = 0
    /\ available_timestamps = <<>>
    /\ unavailable_timestamps = <<>>
    /\ available_quorum_signature = None
    /\ unavailable_quorum_signature = None
    /\ available_votes = 0
    /\ unavailable_votes = 0
    /\ message = <<>>
    /\ verify_tasks = <<>>
    /\ final_log = None
    /\ result = NoResult
    /\ ops = 0
    /\ faults = 0
    /\ certified = {}
    /\ inserted = <<>>
    /\ published = [v \in AllIndices |-> {}]
    /\ validator_publisher_sockets = {}
    /\ sub_topic = None
    /\ sub_connected = {}
    /\ sub_socket = [v \in AllIndices |-> <<>>]
    /\ record_sub = <<>>
    /\ delivered = <<>>
    /\ sub_task_done = FALSE
    /\ record_closed = FALSE
    /\ validators_count = None
    /\ records_by_id = <<>>
    /\ sending = None
    /\ certified_record_sub = <<>>
    /\ certified_closed = FALSE
    /\ certified_delivered = <<>>
    /\ send_failed = FALSE
    /\ parse_errors = 0
    /\ stranded = {}
    /\ quorum_sets = <<{}, {}>>
    /\ log_records = <<>>
    /\ certified_log = None
    /\ read_messages = <<>>

\* ------------------------------------------------------------- validator
\* Validator::write: stamp, sign, store.  The pair is (record, new store).
Validator_write(v, namespace, msg, timestamp) ==
    LET digest == record_digest(msg, namespace, timestamp)
        signature == sign_with_prefix(SecretKey(v), digest)
        record == [timestamp |-> timestamp, message |-> msg, signature |-> signature]
    IN  [record |-> record, store |-> write_one(store[v], namespace, record)]

\* UnavailableMessage::create_signed.
create_signed(msg_id, secret_key, timestamp) ==
    [timestamp |-> timestamp, msg_id |-> msg_id,
     signature |-> sign_with_prefix(secret_key, msg_id \o to_le_bytes(timestamp))]

\* Validator::read_message.
Validator_read_message(v, namespace, msg_id, timestamp) ==
    LET record == store_read_message(store[v], namespace, msg_id)
    IN  IF record.tag = "Some"
        THEN to_vec("Available", record.val)
        ELSE to_vec("Unavailable", create_signed(msg_id, SecretKey(v), timestamp))

\* req.respond(response): the reply reaches the request future of a client
\* that still awaits it; a client that has returned has dropped the future.
respond(v, bytes) ==
    [responses EXCEPT ![v] = IF pc \in {"done", "read_join"}
                             THEN Future("dropped", NoBytes)
                             ELSE Future("replied", bytes)]

\* try_send on the publisher queue: dropped when the queue is full.
try_send(queue, item) ==
    IF Len(queue) < PublisherQueueCap THEN Append(queue, item) ELSE queue

\* Mutant: the record is queued whether or not the namespace is subscribed.
ValidatorHandleWrite_AlwaysQueue(v, timestamp) ==
    /\ v \in DOMAIN responses
    /\ responses[v].st = "sent"
    /\ request.type = "Write"
    /\ LET w == Validator_write(v, request.namespace, request.message, timestamp)
           response == to_vec("Record", w.record)
       IN  /\ store' = [store EXCEPT ![v] = w.store]
           /\ responses' = respond(v, response)
           /\ publisher_queue' =
                [publisher_queue EXCEPT ![v] =
                    try_send(@, <<request.namespace, response>>)]
    /\ UNCHANGED <<active_subscriptions, validators, pc, request, write_locals,
                   read_message_locals, result, ops, faults, certified>>
    /\ UNCHANGED read_locals
    /\ UNCHANGED aux_vars

\* Mutant: a write that cannot be queued for publication is refused, neither
\* stored nor answered with a record.
ValidatorHandleWrite_Backpressure(v, timestamp) ==
    /\ v \in DOMAIN responses
    /\ responses[v].st = "sent"
    /\ request.type = "Write"
    /\ LET w == Validator_write(v, request.namespace, request.message, timestamp)
           response == to_vec("Record", w.record)
           refused == /\ request.namespace \in active_subscriptions[v]
                      /\ Len(publisher_queue[v]) >= PublisherQueueCap
       IN  /\ store' = IF refused THEN store ELSE [store EXCEPT ![v] = w.store]
           /\ responses' = IF refused THEN respond(v, Garbage) ELSE respond(v, response)
           /\ publisher_queue' =
                IF request.namespace \in active_subscriptions[v]
                THEN [publisher_queue EXCEPT ![v] =
                        try_send(@, <<request.namespace, response>>)]
                ELSE publisher_queue
    /\ UNCHANGED <<active_subscriptions, validators, pc, request, write_locals,
                   read_message_locals, result, ops, faults, certified>>
    /\ UNCHANGED read_locals
    /\ UNCHANGED aux_vars

\* Validator::poll, Request::Write arm.  The clock reads `timestamp`.
ValidatorHandleWrite(v, timestamp) ==
    /\ v \in DOMAIN responses
    /\ responses[v].st = "sent"
    /\ request.type = "Write"
    /\ LET w == Validator_write(v, request.namespace, request.message, timestamp)
           response == to_vec("Record", w.record)
       IN  /\ store' = [store EXCEPT ![v] = w.store]
           /\ responses' = respond(v, response)
           /\ publisher_queue' =
                IF request.namespace \in active_subscriptions[v]
                THEN [publisher_queue EXCEPT ![v] =
                        try_send(@, <<request.namespace, response>>)]
                ELSE publisher_queue
    /\ UNCHANGED <<active_subscriptions, validators, pc, request, write_locals,
                   read_message_locals, result, ops, faults, certified>>
    /\ UNCHANGED read_locals
    /\ UNCHANGED aux_vars

\* Validator::read_range.
Validator_read_range(v, namespace, start, end) ==
    store_read_range(store[v], namespace, start, end)

\* Validator::poll, Request::ReadRange arm.
ValidatorHandleReadRange(v) ==
    /\ v \in DOMAIN responses
    /\ responses[v].st = "sent"
    /\ request.type = "ReadRange"
    /\ responses' =
         respond(v, to_vec("Log", Validator_read_range(v, request.namespace,
                                                       request.start, request.end)))
    /\ UNCHANGED <<validator_vars, validators, pc, request, write_locals,
                   read_message_locals, read_locals, result, ops, faults, certified>>
    /\ UNCHANGED aux_vars

\* Validator::poll, Request::ReadMessage arm.
ValidatorHandleReadMessage(v, timestamp) ==
    /\ v \in DOMAIN responses
    /\ responses[v].st = "sent"
    /\ request.type = "ReadMessage"
    /\ responses' =
         respond(v, Validator_read_message(v, request.namespace, request.msg_id, timestamp))
    /\ UNCHANGED <<validator_vars, validators, pc, request, write_locals,
                   read_message_locals, result, ops, faults, certified>>
    /\ UNCHANGED read_locals
    /\ UNCHANGED aux_vars

\* Validator::subscribe.
Validator_subscribe(v, namespace) ==
    [active_subscriptions EXCEPT ![v] = @ \cup {namespace}]

\* Validator::poll, Request::Subscribe arm: the reply tells the port of the
\* publisher socket, which stands for the validator that owns it.
ValidatorHandleSubscribe(v) ==
    /\ v \in DOMAIN responses
    /\ responses[v].st = "sent"
    /\ request.type = "Subscribe"
    /\ active_subscriptions' = Validator_subscribe(v, request.namespace)
    /\ responses' = respond(v, to_vec("SubscribeResponse", [port |-> v, auth_token |-> "noop"]))
    /\ UNCHANGED <<store, publisher_queue, validators, pc, request, write_locals,
                   read_message_locals, read_locals, result, ops, faults, certified,
                   aux_vars>>

\* Mutant: the validator answers an unparsable request with an error reply.
ValidatorHandleUnparsable_Reply(v) ==
    /\ v \in DOMAIN responses
    /\ responses[v].st = "sent"
    /\ request.type = "Unparsable"
    /\ parse_errors' = parse_errors + 1
    /\ responses' = respond(v, Garbage)
    /\ UNCHANGED <<validator_vars, validators, pc, request, write_locals,
                   read_message_locals, read_locals, result, ops, faults, certified,
                   inserted, published, sub_vars, task_vars, cert_vars, send_failed,
                   stranded, quorum_sets, rc_vars>>

\* Validator::poll, serde_json::from_slice::<Request> fails: the error is
\* logged and the loop continues with the next request; the request is
\* consumed and never answered.
ValidatorHandleUnparsable(v) ==
    /\ v \in DOMAIN responses
    /\ responses[v].st = "sent"
    /\ request.type = "Unparsable"
    /\ parse_errors' = parse_errors + 1
    /\ responses' = [responses EXCEPT ![v] = Future("unanswered", NoBytes)]
    /\ UNCHANGED <<validator_vars, validators, pc, request, write_locals,
                   read_message_locals, read_locals, result, ops, faults, certified,
                   inserted, published, sub_vars, task_vars, cert_vars, send_failed,
                   stranded, quorum_sets, rc_vars>>

\* String::from_utf8_lossy, one code point per byte: ASCII bytes stand for
\* themselves, any other byte becomes U+FFFD.
from_utf8_lossy(bytes) ==
    [k \in 1 .. Len(bytes) |-> IF bytes[k] < 128 THEN bytes[k] ELSE 65533]

\* Mutant: the newest queued item is published first.
ValidatorFlush_Newest(v) ==
    /\ publisher_queue[v] # <<>>
    /\ LET item == publisher_queue[v][Len(publisher_queue[v])]
           topic_string == from_utf8_lossy(item[1])
       IN  /\ published' = [published EXCEPT ![v] = @ \cup {<<topic_string, item[2]>>}]
           /\ sub_socket' =
                IF /\ v \in sub_connected
                   /\ from_utf8_lossy(sub_topic.val) = topic_string
                THEN [sub_socket EXCEPT ![v] = Append(@, item[2])]
                ELSE sub_socket
    /\ publisher_queue' =
         [publisher_queue EXCEPT ![v] = SubSeq(@, 1, Len(@) - 1)]
    /\ UNCHANGED <<store, active_subscriptions, validators, pc, request, responses,
                   write_locals, read_message_locals, read_locals, result, ops,
                   faults, certified, inserted, validator_publisher_sockets,
                   sub_topic, sub_connected, record_sub, delivered>>
    /\ UNCHANGED more_vars

\* Validator::poll, the flush of one queued item: publisher_queue_rx yields
\* the oldest item and pub_socket.try_publish sends it, under the topic of its
\* namespace, to the subscribers of that topic that are connected.
ValidatorFlush(v) ==
    /\ publisher_queue[v] # <<>>
    /\ LET namespace == Head(publisher_queue[v])[1]
           serialized_record == Head(publisher_queue[v])[2]
           topic_string == from_utf8_lossy(namespace)
       IN  /\ published' =
                [published EXCEPT ![v] = @ \cup {<<topic_string, serialized_record>>}]
           /\ sub_socket' =
                IF /\ v \in sub_connected
                   /\ from_utf8_lossy(sub_topic.val) = topic_string
                THEN [sub_socket EXCEPT ![v] = Append(@, serialized_record)]
                ELSE sub_socket
    /\ publisher_queue' = [publisher_queue EXCEPT ![v] = Tail(@)]
    /\ UNCHANGED <<store, active_subscriptions, validators, pc, request, responses,
                   write_locals, read_message_locals, read_locals, result, ops,
                   faults, certified, inserted, validator_publisher_sockets,
                   sub_topic, sub_connected, record_sub, delivered>>
    /\ UNCHANGED more_vars

\* ----------------------------------------------------------------- client
\* Client::connect_validator with the identity (index, PublicKey(index)) and
\* the address of validator `index`.  The client is set up before it is
\* used: bin/client.rs and the tests connect every validator of the registry
\* and then share the client immutably.
connect_validator(index) ==
    /\ pc = "idle"
    /\ ops = 0
    /\ index \notin DOMAIN validators
    /\ validators' = [i \in DOMAIN validators \cup {index} |-> PublicKey(i)]
    /\ UNCHANGED <<validator_vars, pc, request, responses, write_locals,
                   read_message_locals, result, ops, faults, certified>>
    /\ UNCHANGED read_locals
    /\ UNCHANGED aux_vars

\* The locals of an operation that has returned no longer exist.
ClearWriteLocals ==
    /\ timestamps' = <<>>
    /\ quorum_signature' = None
    /\ votes' = 0

ClearReadLocals ==
    /\ verify_tasks' = <<>>
    /\ final_log' = None

ClearReadMessageLocals ==
    /\ available_timestamps' = <<>>
    /\ unavailable_timestamps' = <<>>
    /\ available_quorum_signature' = None
    /\ unavailable_quorum_signature' = None
    /\ available_votes' = 0
    /\ unavailable_votes' = 0
    /\ message' = <<>>

\* The fan-out of one serialized request to every validator socket.
fan_out == [i \in DOMAIN validators |-> Future("sent", NoBytes)]

\* Client::write up to the first await of `responses.next()`.
ClientWrite(namespace, msg) ==
    /\ pc \in {"idle", "done"}
    /\ ops < MaxOps
    /\ ops' = ops + 1
    /\ faults' = 0
    /\ pc' = "write"
    /\ request' = [type |-> "Write", namespace |-> namespace, message |-> msg]
    /\ responses' = fan_out
    /\ timestamps' = zeroes(n_validators)
    /\ quorum_signature' = None
    /\ votes' = 0
    /\ result' = NoResult
    /\ ClearReadMessageLocals
    /\ UNCHANGED <<validator_vars, validators, certified>>
    /\ ClearReadLocals
    /\ UNCHANGED aux_vars

\* Mutant: the message comparison is missing.
WriteAccepts_NoMessageCheck(index, bytes) ==
    LET parsed == from_slice("Record", bytes)
    IN  /\ parsed.tag = "Some"
        /\ verify_signature(parsed.val.signature, validators[index],
                            Record_digest(parsed.val, request.namespace))

\* The checks of the write loop on one reply: it parses as a Record, carries
\* the requested message, and its signature verifies under the validator's
\* public key over the record digest.
WriteAccepts(index, bytes) ==
    LET parsed == from_slice("Record", bytes)
    IN  /\ parsed.tag = "Some"
        /\ parsed.val.message = request.message
        /\ verify_signature(parsed.val.signature, validators[index],
                            Record_digest(parsed.val, request.namespace))

\* Client::write after the loop: the quorum check and the certificate.
\* certified_timestamp() sorts the certificate's timestamps in place.
\* Mutant: the certificate keeps only the slots of the validators that voted.
WriteResult_Compact(ts, qs, v) ==
    IF ~has_reached_quorum(n_validators, v)
    THEN Err([type |-> "NoQuorum", got |-> v, needed |-> n_validators])
    ELSE IF qs.tag = "None"
    THEN Panic("Quorum passed")
    ELSE Ok([timestamps |-> SelectSeq(certified_timestamp(ts).timestamps,
                                      LAMBDA t : t # 0),
             message |-> request.message,
             quorum_signature |-> qs.val])

WriteResult(ts, qs, v) ==
    IF ~has_reached_quorum(n_validators, v)
    THEN Err([type |-> "NoQuorum", got |-> v, needed |-> n_validators])
    ELSE IF qs.tag = "None"
    THEN Panic("Quorum passed")
    ELSE Ok([timestamps |-> certified_timestamp(ts).timestamps,
             message |-> request.message,
             quorum_signature |-> qs.val])

\* The futures left in the stream when the operation returns are dropped;
\* a request already on the wire may still reach its validator.
drop_rest(futs) ==
    [i \in DOMAIN futs |->
        IF futs[i].st = "replied" THEN Future("dropped", NoBytes) ELSE futs[i]]

\* History of the certificates returned by Client::write.
Certify(res) ==
    certified' = IF res.tag = "Ok"
                 THEN certified \cup {<<request.namespace, request.message>>}
                 ELSE certified

\* Client::write returns `res`; the futures left in the stream are dropped.
WriteReturn(res, futs) ==
    /\ pc' = "done"
    /\ result' = res
    /\ responses' = drop_rest(futs)
    /\ Certify(res)

\* One iteration of the write loop on Some((index, bytes)).
ClientWriteRecv(index) ==
    /\ pc = "write"
    /\ index \in DOMAIN responses
    /\ responses[index].st = "replied"
    /\ LET bytes == responses[index].bytes
           taken == [responses EXCEPT ![index].st = "taken"]
           skipped == [responses EXCEPT ![index].st = "skipped"]
           record == from_slice("Record", bytes).val
       IN  IF ~WriteAccepts(index, bytes)
           THEN \* continue
                /\ responses' = skipped
                /\ UNCHANGED <<pc, write_locals, result, certified>>
           ELSE LET q == AggregateAdd(quorum_signature, record.signature)
                    v == votes + 1
                IN  /\ quorum_signature' = q
                    /\ votes' = v
                    /\ IF index >= Len(timestamps)
                       THEN \* timestamps[index]: index out of bounds
                            /\ timestamps' = timestamps
                            /\ WriteReturn(Panic("index out of bounds"), taken)
                       ELSE LET ts == [timestamps EXCEPT ![index + 1] = record.timestamp]
                            IN  /\ timestamps' = ts
                                /\ IF has_reached_quorum(n_validators, v)
                                   THEN \* break
                                        WriteReturn(WriteResult(ts, q, v), taken)
                                   ELSE /\ responses' = taken
                                        /\ UNCHANGED <<pc, result, certified>>
    /\ UNCHANGED <<validator_vars, validators, request, read_message_locals, ops, faults>>
    /\ UNCHANGED read_locals
    /\ UNCHANGED aux_vars

\* The request future of `index` ends with a transport error or its timeout
\* and yields None: `while let Some(Some(..))` does not match, the loop ends.
ClientWriteNone(index) ==
    /\ pc = "write"
    /\ index \in DOMAIN responses
    /\ responses[index].st \in {"sent", "replied"}
    /\ WriteReturn(WriteResult(timestamps, quorum_signature, votes),
                   [responses EXCEPT ![index] = Future("failed", NoBytes)])
    /\ UNCHANGED <<validator_vars, validators, request, write_locals,
                   read_message_locals, ops, faults>>
    /\ UNCHANGED read_locals
    /\ UNCHANGED aux_vars

\* Every future has been yielded: responses.next() is None, the loop ends.
ClientWriteEnd ==
    /\ pc = "write"
    /\ \A i \in DOMAIN responses : responses[i].st \in {"taken", "skipped"}
    /\ WriteReturn(WriteResult(timestamps, quorum_signature, votes), responses)
    /\ UNCHANGED <<validator_vars, validators, request, write_locals,
                   read_message_locals, ops, faults>>
    /\ UNCHANGED read_locals
    /\ UNCHANGED aux_vars

\* ---------------------------------------------------------- faulty replies
\* What a faulty validator (or the network) may answer a Write request of
\* index i with, instead of the record an honest validator signs.
ForgedWriteReplies(i) ==
    LET ns == request.namespace
        m == request.message
        other == CHOOSE m2 \in Messages : m2 # m
        rec(ts, msg, sig) == to_vec("Record", [timestamp |-> ts, message |-> msg,
                                                signature |-> sig])
    IN  { Garbage,
          \* another message, validly signed by validator i
          rec(1, other, sign_with_prefix(SecretKey(i), record_digest(other, ns, 1))),
          \* the requested message, signed by another key
          rec(1, m, sign_with_prefix(SecretKey((i + 1) % NumValidators),
                                     record_digest(m, ns, 1))),
          \* the requested message, the signature over another timestamp
          rec(1, m, sign_with_prefix(SecretKey(i), record_digest(m, ns, 2))) }

FaultyWriteReply(v) ==
    /\ pc = "write"
    /\ v \in DOMAIN responses
    /\ responses[v].st = "sent"
    /\ faults < MaxFaults
    /\ faults' = faults + 1
    /\ \E bytes \in ForgedWriteReplies(v) :
         responses' = [responses EXCEPT ![v] = Future("replied", bytes)]
    /\ UNCHANGED <<validator_vars, validators, pc, request, write_locals,
                   read_message_locals, result, ops, certified>>
    /\ UNCHANGED read_locals
    /\ UNCHANGED aux_vars

\* ---------------------------------------------------- Client::read_message
\* Client::read_message up to the first await of `responses.next()`.
ClientReadMessage(namespace, msg_id) ==
    /\ pc \in {"idle", "done"}
    /\ ops < MaxOps
    /\ ops' = ops + 1
    /\ faults' = 0
    /\ pc' = "read_message"
    /\ request' = [type |-> "ReadMessage", namespace |-> namespace, msg_id |-> msg_id]
    /\ responses' = fan_out
    /\ available_timestamps' = zeroes(n_validators)
    /\ unavailable_timestamps' = zeroes(n_validators)
    /\ available_quorum_signature' = None
    /\ unavailable_quorum_signature' = None
    /\ available_votes' = 0
    /\ unavailable_votes' = 0
    /\ message' = <<>>
    /\ result' = NoResult
    /\ ClearWriteLocals
    /\ UNCHANGED <<validator_vars, validators, certified>>
    /\ ClearReadLocals
    /\ UNCHANGED aux_vars

\* serde_json::from_slice::<ReadMessageResponse>.
from_slice_ReadMessageResponse(bytes) ==
    IF bytes.type \in {"Available", "Unavailable"} THEN Some(bytes) ELSE None

\* Mutant: the message-integrity check is missing.
AvailableMatches_Skip(record) == TRUE

\* The message-integrity check on an Available reply.
AvailableMatches(record) ==
    message_digest(record.message, request.namespace) = request.msg_id

\* The signature check on an Available reply.
AvailableVerifies(index, record) ==
    verify_signature(record.signature, validators[index],
                     Record_digest(record, request.namespace))

\* The signature check on an Unavailable reply: over the digest of the
\* reply's own msg_id and timestamp.
UnavailableVerifies(index, unavailable) ==
    verify_signature(unavailable.signature, validators[index],
                     UnavailableMessage_digest(unavailable))

\* The loop's exit test after a counted vote.
ReadMessageBreak(a, u) ==
    \/ has_reached_quorum(n_validators, a)
    \/ has_reached_quorum(n_validators, u)
    \/ a + u >= n_validators

\* Client::read_message after the loop.
ReadMessageResult(ats, uts, aqs, uqs, a, u, msg) ==
    IF has_reached_quorum(n_validators, a)
    THEN IF aqs.tag = "None" THEN Panic("Quorum passed")
         ELSE Ok(to_vec("Available",
                        [timestamps |-> certified_timestamp(ats).timestamps,
                         message |-> msg,
                         quorum_signature |-> aqs.val]))
    ELSE IF has_reached_quorum(n_validators, u)
    THEN IF uqs.tag = "None" THEN Panic("Quorum passed")
         ELSE Ok(to_vec("Unavailable",
                        [timestamps |-> unavailable_certified_timestamp(uts).timestamps,
                         msg_id |-> request.msg_id,
                         quorum_signature |-> uqs.val]))
    ELSE Err([type |-> "NoQuorum", available |-> a, unavailable |-> u])

\* One iteration of the read_message loop on Some((index, bytes)).
ClientReadMessageRecv(index) ==
    /\ pc = "read_message"
    /\ index \in DOMAIN responses
    /\ responses[index].st = "replied"
    /\ LET bytes == responses[index].bytes
           taken == [responses EXCEPT ![index].st = "taken"]
           skipped == [responses EXCEPT ![index].st = "skipped"]
           response == from_slice_ReadMessageResponse(bytes)
           skip == /\ responses' = skipped
                   /\ UNCHANGED <<pc, result, available_timestamps,
                                  unavailable_timestamps, available_quorum_signature,
                                  unavailable_quorum_signature, available_votes,
                                  unavailable_votes>>
           \* the tail of the loop body and, on break, of the function
           tail(ats, uts, aqs, uqs, a, u, msg) ==
                IF ReadMessageBreak(a, u)
                THEN /\ pc' = "done"
                     /\ result' = ReadMessageResult(ats, uts, aqs, uqs, a, u, msg)
                     /\ responses' = drop_rest(taken)
                ELSE /\ responses' = taken
                     /\ UNCHANGED <<pc, result>>
           oob == /\ pc' = "done"
                  /\ result' = Panic("index out of bounds")
                  /\ responses' = drop_rest(taken)
       IN  IF response.tag = "None"
           THEN skip /\ UNCHANGED message
           ELSE IF bytes.type = "Available"
           THEN LET record == bytes.val
                IN  IF ~AvailableMatches(record)
                    THEN skip /\ UNCHANGED message
                    ELSE /\ message' = record.message
                         /\ IF ~AvailableVerifies(index, record)
                            THEN skip
                            ELSE LET q == AggregateAdd(available_quorum_signature,
                                                       record.signature)
                                     a == available_votes + 1
                                 IN  /\ available_quorum_signature' = q
                                     /\ available_votes' = a
                                     /\ UNCHANGED <<unavailable_timestamps,
                                                    unavailable_quorum_signature,
                                                    unavailable_votes>>
                                     /\ IF index >= Len(available_timestamps)
                                        THEN oob /\ UNCHANGED available_timestamps
                                        ELSE LET ats == [available_timestamps EXCEPT
                                                           ![index + 1] = record.timestamp]
                                             IN  /\ available_timestamps' = ats
                                                 /\ tail(ats, unavailable_timestamps, q,
                                                         unavailable_quorum_signature,
                                                         a, unavailable_votes,
                                                         record.message)
           ELSE LET unavailable == bytes.val
                IN  IF ~UnavailableVerifies(index, unavailable)
                    THEN skip /\ UNCHANGED message
                    ELSE LET q == AggregateAdd(unavailable_quorum_signature,
                                               unavailable.signature)
                             u == unavailable_votes + 1
                         IN  /\ unavailable_quorum_signature' = q
                             /\ unavailable_votes' = u
                             /\ UNCHANGED <<available_timestamps,
                                            available_quorum_signature,
                                            available_votes, message>>
                             /\ IF index >= Len(unavailable_timestamps)
                                THEN oob /\ UNCHANGED unavailable_timestamps
                                ELSE LET uts == [unavailable_timestamps EXCEPT
                                                   ![index + 1] = unavailable.timestamp]
                                     IN  /\ unavailable_timestamps' = uts
                                         /\ tail(available_timestamps, uts,
                                                 available_quorum_signature, q,
                                                 available_votes, u, message)
    /\ UNCHANGED <<validator_vars, validators, request, write_locals, ops, faults, certified>>
    /\ UNCHANGED read_locals
    /\ UNCHANGED aux_vars

\* The request future of `index` yields None: the loop ends.
ClientReadMessageNone(index) ==
    /\ pc = "read_message"
    /\ index \in DOMAIN responses
    /\ responses[index].st \in {"sent", "replied"}
    /\ pc' = "done"
    /\ result' = ReadMessageResult(available_timestamps, unavailable_timestamps,
                                   available_quorum_signature,
                                   unavailable_quorum_signature,
                                   available_votes, unavailable_votes, message)
    /\ responses' = drop_rest([responses EXCEPT ![index] = Future("failed", NoBytes)])
    /\ UNCHANGED <<validator_vars, validators, request, write_locals,
                   read_message_locals, ops, faults, certified>>
    /\ UNCHANGED read_locals
    /\ UNCHANGED aux_vars

\* Every future has been yielded: responses.next() is None, the loop ends.
ClientReadMessageEnd ==
    /\ pc = "read_message"
    /\ \A i \in DOMAIN responses : responses[i].st \in {"taken", "skipped"}
    /\ pc' = "done"
    /\ result' = ReadMessageResult(available_timestamps, unavailable_timestamps,
                                   available_quorum_signature,
                                   unavailable_quorum_signature,
                                   available_votes, unavailable_votes, message)
    /\ UNCHANGED <<validator_vars, validators, request, responses, write_locals,
                   read_message_locals, ops, faults, certified>>
    /\ UNCHANGED read_locals
    /\ UNCHANGED aux_vars

\* What a faulty validator (or the network) may answer a ReadMessage request
\* of index i with.
ForgedReadMessageReplies(i) ==
    LET ns == request.namespace
        id == request.msg_id
        other_id == CHOOSE d \in MsgIds : d # id
        j == (i + 1) % NumValidators
        rec(msg, key) == [timestamp |-> 1, message |-> msg,
                          signature |-> sign_with_prefix(key, record_digest(msg, ns, 1))]
        named == { m \in Messages : message_digest(m, ns) = id }
        others == { m \in Messages : message_digest(m, ns) # id }
    IN  { Garbage,
          \* a validly signed certificate for another msg_id
          to_vec("Unavailable", create_signed(other_id, SecretKey(i), 1)),
          \* a certificate for the requested msg_id signed by another key
          to_vec("Unavailable", create_signed(id, SecretKey(j), 1)) }
        \cup { to_vec("Available", rec(m, SecretKey(i))) : m \in named \cup others }
        \cup { to_vec("Available", rec(m, SecretKey(j))) : m \in named }

FaultyReadMessageReply(v) ==
    /\ pc = "read_message"
    /\ v \in DOMAIN responses
    /\ responses[v].st = "sent"
    /\ faults < MaxFaults
    /\ faults' = faults + 1
    /\ \E bytes \in ForgedReadMessageReplies(v) :
         responses' = [responses EXCEPT ![v] = Future("replied", bytes)]
    /\ UNCHANGED <<validator_vars, validators, pc, request, write_locals,
                   read_message_locals, result, ops, certified>>
    /\ UNCHANGED read_locals
    /\ UNCHANGED aux_vars

\* ------------------------------------------------------------ Client::read
\* Client::read up to the first await of `responses.next()`.
ClientRead(namespace, start, end) ==
    /\ pc \in {"idle", "done"}
    /\ ops < MaxOps
    /\ ops' = ops + 1
    /\ faults' = 0
    /\ pc' = "read"
    /\ request' = [type |-> "ReadRange", namespace |-> namespace,
                   start |-> start, end |-> end]
    /\ responses' = fan_out
    /\ verify_tasks' = <<>>
    /\ final_log' = None
    /\ result' = NoResult
    /\ ClearWriteLocals
    /\ ClearReadMessageLocals
    /\ UNCHANGED <<validator_vars, validators, certified>>
    /\ UNCHANGED aux_vars

\* The body of a verification task: Some(log) if every record's signature
\* verifies under the validator's key, None at the first that does not.
verify_log(index, log) ==
    IF \A k \in 1 .. Len(log) :
           verify_signature(log[k].signature, validators[index],
                            Record_digest(log[k], request.namespace))
    THEN Some(log)
    ELSE None

\* A task of the JoinSet: "spawned", "joined" (join_next yielded Some(log)),
\* "rejected" (join_next yielded None).
Task(st, log) == [st |-> st, log |-> log]

\* The futures left in the stream when the response loop of read ends: a
\* reply that had arrived is "lost" unprocessed.
lose_rest(futs) ==
    [i \in DOMAIN futs |->
        IF futs[i].st = "replied" THEN Future("lost", futs[i].bytes) ELSE futs[i]]

\* One iteration of the response loop of read on Some((index, bytes)).
ClientReadRecv(index) ==
    /\ pc = "read"
    /\ index \in DOMAIN responses
    /\ responses[index].st = "replied"
    /\ LET log == from_slice("Log", responses[index].bytes)
       IN  IF log.tag = "None"
           THEN \* continue
                /\ responses' = [responses EXCEPT ![index].st = "skipped"]
                /\ UNCHANGED verify_tasks
           ELSE \* verify_tasks.spawn
                /\ responses' = [responses EXCEPT ![index].st = "taken"]
                /\ verify_tasks' =
                     [i \in DOMAIN verify_tasks \cup {index} |->
                        IF i = index THEN Task("spawned", log.val) ELSE verify_tasks[i]]
    /\ UNCHANGED <<validator_vars, validators, pc, request, write_locals,
                   read_message_locals, final_log, result, ops, faults, certified>>
    /\ UNCHANGED aux_vars

\* The request future of `index` yields None: the response loop ends.
ClientReadNone(index) ==
    /\ pc = "read"
    /\ index \in DOMAIN responses
    /\ responses[index].st \in {"sent", "replied"}
    /\ pc' = "read_join"
    /\ responses' = lose_rest([responses EXCEPT ![index] = Future("failed", NoBytes)])
    /\ UNCHANGED <<validator_vars, validators, request, write_locals,
                   read_message_locals, read_locals, result, ops, faults, certified>>
    /\ UNCHANGED aux_vars

\* Every future has been yielded: the response loop ends.
ClientReadEnd ==
    /\ pc = "read"
    /\ \A i \in DOMAIN responses : responses[i].st \in {"taken", "skipped"}
    /\ pc' = "read_join"
    /\ UNCHANGED <<validator_vars, validators, request, responses, write_locals,
                   read_message_locals, read_locals, result, ops, faults, certified>>
    /\ UNCHANGED aux_vars

\* Mutant: the accumulator is replaced by the last log joined.
extend_Replace(first, log) == Some(log)

\* Log::extend on the Option<Log> accumulator of the join loop.
extend(first, log) ==
    IF first.tag = "Some" THEN Some(first.val \o log) ELSE Some(log)

\* slice::sort_by_key(|r| r.timestamp): a stable sort.
RECURSIVE sort_by_key(_)
sort_by_key(records) ==
    IF records = <<>> THEN <<>>
    ELSE LET init == sort_by_key(SubSeq(records, 1, Len(records) - 1))
             last == records[Len(records)]
             keep == { k \in 1 .. Len(init) : init[k].timestamp <= last.timestamp }
             at == IF keep = {} THEN 0 ELSE CHOOSE k \in keep : \A j \in keep : j <= k
         IN  SubSeq(init, 1, at) \o <<last>> \o SubSeq(init, at + 1, Len(init))

\* Mutant: the merged log is returned in merge order.
ReadResult_Unsorted(first) ==
    Ok([records |-> IF first.tag = "Some" THEN first.val ELSE <<>>])

\* Client::read after the join loop: unwrap_or_default, sort, Ok.
ReadResult(first) ==
    Ok([records |-> sort_by_key(IF first.tag = "Some" THEN first.val ELSE <<>>)])

\* One iteration of the join loop: join_next yields the task of `index`.
ClientReadJoin(index) ==
    /\ pc = "read_join"
    /\ index \in DOMAIN verify_tasks
    /\ verify_tasks[index].st = "spawned"
    /\ LET out == verify_log(index, verify_tasks[index].log)
       IN  IF out.tag = "Some"
           THEN /\ final_log' = extend(final_log, out.val)
                /\ verify_tasks' = [verify_tasks EXCEPT ![index].st = "joined"]
                /\ UNCHANGED <<pc, result>>
           ELSE \* `while let Some(Ok(Some(log)))` does not match: the loop ends
                /\ verify_tasks' = [verify_tasks EXCEPT ![index].st = "rejected"]
                /\ pc' = "done"
                /\ result' = ReadResult(final_log)
                /\ UNCHANGED final_log
    /\ UNCHANGED <<validator_vars, validators, request, responses, write_locals,
                   read_message_locals, ops, faults, certified>>
    /\ UNCHANGED aux_vars

\* The JoinSet is empty: join_next yields None, read returns.
ClientReadJoinEnd ==
    /\ pc = "read_join"
    /\ \A i \in DOMAIN verify_tasks : verify_tasks[i].st = "joined"
    /\ pc' = "done"
    /\ result' = ReadResult(final_log)
    /\ UNCHANGED <<validator_vars, validators, request, responses, write_locals,
                   read_message_locals, read_locals, ops, faults, certified>>
    /\ UNCHANGED aux_vars

\* What a faulty validator (or the network) may answer a ReadRange request
\* of index i with.
ForgedReadReplies(i) ==
    LET ns == request.namespace
        j == (i + 1) % NumValidators
        rec(key) == [timestamp |-> 1, message |-> M1,
                     signature |-> sign_with_prefix(key, record_digest(M1, ns, 1))]
    IN  { Garbage,
          \* a log whose only record is signed by another key
          to_vec("Log", << rec(SecretKey(j)) >>),
          \* a log with a good record followed by one signed by another key
          to_vec("Log", << rec(SecretKey(i)), rec(SecretKey(j)) >>) }

FaultyReadReply(v) ==
    /\ pc = "read"
    /\ v \in DOMAIN responses
    /\ responses[v].st = "sent"
    /\ faults < MaxFaults
    /\ faults' = faults + 1
    /\ \E bytes \in ForgedReadReplies(v) :
         responses' = [responses EXCEPT ![v] = Future("replied", bytes)]
    /\ UNCHANGED <<validator_vars, validators, pc, request, write_locals,
                   read_message_locals, read_locals, result, ops, certified>>
    /\ UNCHANGED aux_vars

\* ------------------------------------------------------ Client::subscribe
\* Client::subscribe up to the first await of `responses.next()`.
ClientSubscribe(namespace) ==
    /\ pc \in {"idle", "done"}
    /\ sub_topic = None
    /\ faults' = 0
    /\ pc' = "subscribe"
    /\ request' = [type |-> "Subscribe", namespace |-> namespace]
    /\ responses' = fan_out
    /\ validator_publisher_sockets' = {}
    /\ result' = NoResult
    /\ ClearWriteLocals
    /\ ClearReadMessageLocals
    /\ ClearReadLocals
    /\ UNCHANGED <<validator_vars, validators, ops, certified, inserted, published,
                   sub_topic, sub_connected, sub_socket, record_sub, delivered>>
    /\ UNCHANGED more_vars

\* One iteration of the response loop of subscribe on Some((index,
\* remote_addr, bytes)): the publisher address is the address of validator
\* `index` with the port of the reply.
ClientSubscribeRecv(index) ==
    /\ pc = "subscribe"
    /\ index \in DOMAIN responses
    /\ responses[index].st = "replied"
    /\ LET sub_response == from_slice("SubscribeResponse", responses[index].bytes)
       IN  IF sub_response.tag = "None"
           THEN \* continue
                /\ responses' = [responses EXCEPT ![index].st = "skipped"]
                /\ UNCHANGED validator_publisher_sockets
           ELSE /\ responses' = [responses EXCEPT ![index].st = "taken"]
                /\ validator_publisher_sockets' =
                     validator_publisher_sockets \cup {<<index, sub_response.val.port>>}
    /\ UNCHANGED <<validator_vars, validators, pc, request, write_locals,
                   read_message_locals, read_locals, result, ops, faults, certified,
                   inserted, published, sub_topic, sub_connected, sub_socket,
                   record_sub, delivered>>
    /\ UNCHANGED more_vars

\* The end of subscribe: the Record channel is created, the task is spawned
\* with the namespace and the collected publisher sockets, and the stream is
\* returned at once.
SubscribeReturn(resp) ==
    /\ pc' = "done"
    /\ responses' = lose_rest(resp)
    /\ sub_topic' = Some(request.namespace)
    /\ sub_connected' = {}
    /\ record_sub' = <<>>
    /\ result' = Ok("ReceiverStream")

\* The request future of `index` yields None: the response loop ends.
ClientSubscribeNone(index) ==
    /\ pc = "subscribe"
    /\ index \in DOMAIN responses
    /\ responses[index].st \in {"sent", "replied"}
    /\ SubscribeReturn([responses EXCEPT ![index] = Future("failed", NoBytes)])
    /\ UNCHANGED <<validator_vars, validators, request, write_locals,
                   read_message_locals, read_locals, ops, faults, certified,
                   inserted, published, validator_publisher_sockets, sub_socket,
                   delivered>>
    /\ UNCHANGED more_vars

\* Every future has been yielded: the response loop ends.
ClientSubscribeEnd ==
    /\ pc = "subscribe"
    /\ \A i \in DOMAIN responses : responses[i].st \in {"taken", "skipped"}
    /\ SubscribeReturn(responses)
    /\ UNCHANGED <<validator_vars, validators, request, write_locals,
                   read_message_locals, read_locals, ops, faults, certified,
                   inserted, published, validator_publisher_sockets, sub_socket,
                   delivered>>
    /\ UNCHANGED more_vars

\* The spawned task, one iteration of its connect loop that succeeds:
\* sub_socket.connect(pub_socket_addr) reaches the publisher of the validator
\* at that address when the port is its publisher port, and
\* sub_socket.subscribe(topic) registers the topic there.
SubConnect(addr) ==
    /\ sub_topic # None
    /\ addr \in validator_publisher_sockets
    /\ addr[1] \notin sub_connected
    /\ addr[2] = addr[1]
    /\ sub_connected' = sub_connected \cup {addr[1]}
    /\ UNCHANGED <<validator_vars, validators, pc, request, responses, write_locals,
                   read_message_locals, read_locals, result, ops, faults, certified,
                   inserted, published, validator_publisher_sockets, sub_topic,
                   sub_socket, record_sub, delivered>>
    /\ UNCHANGED more_vars

\* record_sub_tx.try_send(record): dropped when the channel is full.
record_sub_try_send(channel, record) ==
    IF Len(channel) < RecordSubCap THEN Append(channel, record) ELSE channel

\* The spawned task, one iteration of `while let Some(pub_msg) =
\* sub_socket.next().await` on a publication of validator v: a payload that
\* parses as a Record goes to the Record channel; the task returns when the
\* consumer has closed the channel.
SubSocketNext(v) ==
    /\ sub_topic # None
    /\ ~sub_task_done
    /\ sub_connected = { addr[1] : addr \in validator_publisher_sockets }
    /\ sub_socket[v] # <<>>
    /\ LET record == from_slice("Record", Head(sub_socket[v]))
       IN  IF record.tag = "Some" /\ record_closed
           THEN \* TrySendError::Closed: return
                /\ sub_task_done' = TRUE
                /\ UNCHANGED record_sub
           ELSE /\ record_sub' = IF record.tag = "Some"
                                 THEN record_sub_try_send(record_sub, record.val)
                                 ELSE record_sub
                /\ UNCHANGED sub_task_done
    /\ sub_socket' = [sub_socket EXCEPT ![v] = Tail(@)]
    /\ UNCHANGED <<validator_vars, validators, pc, request, responses, write_locals,
                   read_message_locals, read_locals, result, ops, faults, certified,
                   inserted, published, validator_publisher_sockets, sub_topic,
                   sub_connected, delivered>>
    /\ UNCHANGED <<record_closed, cert_vars, quorum_sets, rc_vars, hist_vars>>

\* -------------------------------------------- Client::subscribe_certified
\* Client::subscribe_certified up to the first await inside the subscribe it
\* calls; self.validators cannot change until it returns.
ClientSubscribeCertified(namespace) ==
    /\ pc \in {"idle", "done"}
    /\ sub_topic = None
    /\ faults' = 0
    /\ pc' = "subscribe"
    /\ request' = [type |-> "Subscribe", namespace |-> namespace]
    /\ responses' = fan_out
    /\ validator_publisher_sockets' = {}
    /\ result' = NoResult
    /\ validators_count' = Some(n_validators)
    /\ ClearWriteLocals
    /\ ClearReadMessageLocals
    /\ ClearReadLocals
    /\ UNCHANGED <<validator_vars, validators, ops, certified, inserted, published,
                   sub_topic, sub_connected, sub_socket, record_sub, delivered,
                   task_vars, records_by_id, sending, certified_record_sub,
                   certified_closed, certified_delivered, quorum_sets, rc_vars,
                   hist_vars>>

\* hashmore::FIFOMap::insert on a map of the given capacity, held as its
\* (key, value) pairs in insertion order.
FIFOMapInsert(entries, key, value, capacity) ==
    IF \E k \in 1 .. Len(entries) : entries[k][1] = key
    THEN [k \in 1 .. Len(entries) |->
            IF entries[k][1] = key THEN <<key, value>> ELSE entries[k]]
    ELSE IF Len(entries) >= capacity
         THEN Append(Tail(entries), <<key, value>>)
         ELSE Append(entries, <<key, value>>)

\* records_by_id.get_mut(&id), then push; or insert(id, vec![record]).
\* Mutant: a record of a new digest is added without going through the
\* bounded map's insert.
records_by_id_push_Unbounded(map, id, record) ==
    IF \E k \in 1 .. Len(map) : map[k][1] = id
    THEN [k \in 1 .. Len(map) |->
            IF map[k][1] = id THEN <<id, Append(map[k][2], record)>> ELSE map[k]]
    ELSE Append(map, <<id, <<record>>>>)

records_by_id_push(map, id, record) ==
    IF \E k \in 1 .. Len(map) : map[k][1] = id
    THEN [k \in 1 .. Len(map) |->
            IF map[k][1] = id THEN <<id, Append(map[k][2], record)>> ELSE map[k]]
    ELSE FIFOMapInsert(map, id, <<record>>, RecordsByIdCap)

\* records_by_id.get_mut(&id).unwrap()
records_by_id_get(map, id) ==
    map[CHOOSE k \in 1 .. Len(map) : map[k][1] = id][2]

RECURSIVE aggregate(_)
\* The aggregate of from_records_unchecked: from_signature on the first
\* signature, add_signature on the others.
aggregate(sigs) ==
    IF Len(sigs) = 1 THEN from_signature(sigs[1])
    ELSE add_signature(aggregate(SubSeq(sigs, 1, Len(sigs) - 1)), sigs[Len(sigs)])

\* CertifiedRecord::from_records_unchecked.
from_records_unchecked(records) ==
    [timestamps |-> [k \in 1 .. Len(records) |-> records[k].timestamp],
     message |-> records[1].message,
     quorum_signature |-> aggregate([k \in 1 .. Len(records) |-> records[k].signature])]

\* The condition under which the aggregation task builds and sends a
\* certificate after adding a record to a bucket that now holds `len`.
Emits(total_validators, len) == has_reached_quorum(total_validators, len)

\* The aggregation task, one iteration of `while let Some(record) =
\* record_stream.next().await` up to the send.
AggregatorNext ==
    /\ validators_count # None
    /\ sub_topic # None
    /\ sending = None
    /\ record_sub # <<>>
    /\ LET record == Head(record_sub)
           id == message_digest(record.message, sub_topic.val)
           map == records_by_id_push(records_by_id, id, record)
           records == records_by_id_get(map, id)
       IN  /\ records_by_id' = map
           /\ sending' = IF Emits(validators_count.val, Len(records))
                         THEN Some(from_records_unchecked(records))
                         ELSE None
    /\ record_sub' = Tail(record_sub)
    /\ delivered' = Append(delivered, Head(record_sub))
    /\ UNCHANGED <<validator_vars, validators, pc, request, responses, write_locals,
                   read_message_locals, read_locals, result, ops, faults, certified,
                   inserted, published, validator_publisher_sockets, sub_topic,
                   sub_connected, sub_socket, task_vars, validators_count,
                   certified_record_sub, certified_closed, certified_delivered,
                   quorum_sets, rc_vars,
                   hist_vars>>

\* certified_record_tx.send(certified_record).await completes: Err when the
\* consumer has dropped the stream (logged, the loop goes on), Ok when the
\* channel has room; while the channel is full the task waits here.
AggregatorSend ==
    /\ sending # None
    /\ certified_closed \/ Len(certified_record_sub) < CertifiedRecordSubCap
    /\ certified_record_sub' = IF certified_closed THEN certified_record_sub
                               ELSE Append(certified_record_sub, sending.val)
    /\ sending' = None
    /\ send_failed' = (send_failed \/ certified_closed)
    /\ UNCHANGED <<validator_vars, validators, pc, request, responses, write_locals,
                   read_message_locals, read_locals, result, ops, faults, certified,
                   inserted, published, sub_vars, task_vars, validators_count,
                   records_by_id, certified_closed, certified_delivered, quorum_sets, rc_vars,
                   parse_errors, stranded>>

\* The consumer takes the next certificate from the returned stream.
CertifiedStreamNext ==
    /\ ~certified_closed
    /\ certified_record_sub # <<>>
    /\ certified_delivered' = Append(certified_delivered, Head(certified_record_sub))
    /\ certified_record_sub' = Tail(certified_record_sub)
    /\ UNCHANGED <<validator_vars, validators, pc, request, responses, write_locals,
                   read_message_locals, read_locals, result, ops, faults, certified,
                   inserted, published, sub_vars, task_vars, validators_count,
                   records_by_id, sending, certified_closed, quorum_sets, rc_vars,
                   hist_vars>>

\* The consumer drops the returned stream: the receiver closes and the
\* certificates still in the channel are dropped with it.
CertifiedStreamClose ==
    /\ validators_count # None
    /\ sub_topic # None
    /\ ~certified_closed
    /\ certified_closed' = TRUE
    /\ certified_record_sub' = <<>>
    /\ UNCHANGED <<validator_vars, validators, pc, request, responses, write_locals,
                   read_message_locals, read_locals, result, ops, faults, certified,
                   inserted, published, sub_vars, task_vars, validators_count,
                   records_by_id, sending, certified_delivered, quorum_sets, rc_vars,
                   hist_vars>>

\* The consumer takes the next record from the returned ReceiverStream.
StreamNext ==
    /\ sub_topic # None
    /\ validators_count = None
    /\ ~record_closed
    /\ record_sub # <<>>
    /\ delivered' = Append(delivered, Head(record_sub))
    /\ record_sub' = Tail(record_sub)
    /\ UNCHANGED <<validator_vars, validators, pc, request, responses, write_locals,
                   read_message_locals, read_locals, result, ops, faults, certified,
                   inserted, published, validator_publisher_sockets, sub_topic,
                   sub_connected, sub_socket>>
    /\ UNCHANGED more_vars

Next ==
    \/ \E index \in Indices : connect_validator(index)
    \/ \E ns \in Namespaces, m \in Messages : ClientWrite(ns, m)
    \/ \E v \in Indices, t \in Times : ValidatorHandleWrite(v, t)
    \/ \E v \in Indices, t \in Times : ValidatorHandleReadMessage(v, t)
    \/ \E v \in Indices : FaultyWriteReply(v)
    \/ \E index \in Indices : ClientWriteRecv(index)
    \/ \E index \in Indices : ClientWriteNone(index)
    \/ ClientWriteEnd
    \/ \E ns \in Namespaces, id \in MsgIds : ClientReadMessage(ns, id)
    \/ \E v \in Indices : FaultyReadMessageReply(v)
    \/ \E index \in Indices : ClientReadMessageRecv(index)
    \/ \E index \in Indices : ClientReadMessageNone(index)
    \/ ClientReadMessageEnd

Spec == Init /\ [][Next]_vars

\* -------------------------------------------------- progress of the client
\* A step of the operation in progress: the stream of request futures yields
\* a reply, or None for a future that ended with a transport error or with
\* its tokio::time::timeout, or has nothing left to yield.
ClientStep ==
    \/ \E index \in Indices : ClientWriteRecv(index)
    \/ \E index \in Indices : ClientWriteNone(index)
    \/ ClientWriteEnd
    \/ \E index \in Indices : ClientReadMessageRecv(index)
    \/ \E index \in Indices : ClientReadMessageNone(index)
    \/ ClientReadMessageEnd

\* The client of Spec, whose runtime keeps polling the operation in progress:
\* every request future is bounded by its timeout, so a step stays possible
\* until the operation has returned, and is eventually taken.
SpecLive == Spec /\ WF_vars(ClientStep)

\* ------------------------------------------------- Client::write on its own
\* A client that only writes, over the larger registry.
NextWrite ==
    \/ \E index \in WriteIndices : connect_validator(index)
    \/ \E ns \in Namespaces, m \in Messages : ops < MaxOpsWrite /\ ClientWrite(ns, m)
    \/ \E v \in WriteIndices, t \in Times : ValidatorHandleWrite(v, t)
    \/ \E v \in WriteIndices : FaultyWriteReply(v)
    \/ \E index \in WriteIndices : ClientWriteRecv(index)
    \/ \E index \in WriteIndices : ClientWriteNone(index)
    \/ ClientWriteEnd

SpecWrite == Init /\ [][NextWrite]_vars

\* ---------------------------------------------- Client::read after writes
\* A client that writes and reads, against honest and faulty validators.
NextRead ==
    \/ \E index \in Indices : connect_validator(index)
    \/ \E ns \in Namespaces, m \in Messages : ClientWrite(ns, m)
    \/ \E v \in Indices, t \in Times : ValidatorHandleWrite(v, t)
    \/ \E index \in Indices : ClientWriteRecv(index)
    \/ \E index \in Indices : ClientWriteNone(index)
    \/ ClientWriteEnd
    \/ \E ns \in Namespaces, start \in Times, end \in Times : ClientRead(ns, start, end)
    \/ \E v \in Indices : ValidatorHandleReadRange(v)
    \/ \E v \in Indices : FaultyReadReply(v)
    \/ \E index \in Indices : ClientReadRecv(index)
    \/ \E index \in Indices : ClientReadNone(index)
    \/ ClientReadEnd
    \/ \E index \in Indices : ClientReadJoin(index)
    \/ ClientReadJoinEnd

SpecRead == Init /\ [][NextRead]_vars

\* ------------------------------------------------ InMemoryStore on its own
\* The DataStore methods of validator 0's store called directly, with records
\* of any message, timestamp and signer.
MaxInserts == StoreCap + 2
StoreSigners == { 0, 1 }
StoreMsgIds ==
    { message_digest(m, ns) : m \in Messages, ns \in StoreNamespaces } \cup { B256_ZERO }

\* DataStore::write_one.
StoreWriteOne(signer, namespace, msg, timestamp) ==
    LET digest == record_digest(msg, namespace, timestamp)
        record == [timestamp |-> timestamp, message |-> msg,
                   signature |-> sign_with_prefix(SecretKey(signer), digest)]
    IN  /\ pc = "idle"
        /\ Len(inserted) < MaxInserts
        /\ store' = [store EXCEPT ![0] = write_one(@, namespace, record)]
        /\ inserted' = Append(inserted, <<namespace, record>>)
        /\ request' = NoRequest
        /\ result' = NoResult
        /\ UNCHANGED <<active_subscriptions, publisher_queue, validators, pc,
                       responses, write_locals, read_message_locals, read_locals,
                       ops, faults, certified, published, sub_vars>>
        /\ UNCHANGED more_vars

\* DataStore::read_range: `result` is the Log it returns.
StoreReadRange(namespace, start, end) ==
    /\ pc = "idle"
    /\ request' = [type |-> "ReadRange", namespace |-> namespace,
                   start |-> start, end |-> end]
    /\ result' = [records |-> store_read_range(store[0], namespace, start, end)]
    /\ UNCHANGED <<validator_vars, validators, pc, responses, write_locals,
                   read_message_locals, read_locals, ops, faults, certified,
                   aux_vars>>

\* DataStore::read_message: `result` is the Option<Record> it returns.
StoreReadMessage(namespace, msg_id) ==
    /\ pc = "idle"
    /\ request' = [type |-> "ReadMessage", namespace |-> namespace, msg_id |-> msg_id]
    /\ result' = store_read_message(store[0], namespace, msg_id)
    /\ UNCHANGED <<validator_vars, validators, pc, responses, write_locals,
                   read_message_locals, read_locals, ops, faults, certified,
                   aux_vars>>

NextStore ==
    \/ \E signer \in StoreSigners, ns \in Namespaces, m \in Messages, t \in Times :
         StoreWriteOne(signer, ns, m, t)
    \/ \E t \in Times : StoreWriteOne(0, OtherNamespace, M1, t)
    \/ \E ns \in StoreNamespaces, start \in Times, end \in Times :
         StoreReadRange(ns, start, end)
    \/ \E ns \in StoreNamespaces, id \in StoreMsgIds : StoreReadMessage(ns, id)

SpecStore == Init /\ [][NextStore]_vars

\* ------------------------------------------------ Validator::poll on its own
\* Validator 0 serving the Write and Subscribe requests of any number of
\* clients: the next request reaches its RepSocket once the last one has
\* been handled.  The requests come in a burst, within one reading of the
\* millisecond clock.
RequestArrives(req) ==
    /\ pc = "idle"
    /\ 0 \in DOMAIN responses => responses[0].st # "sent"
    /\ request' = req
    /\ responses' = (0 :> Future("sent", NoBytes))
    /\ UNCHANGED <<validator_vars, validators, pc, write_locals, read_message_locals,
                   read_locals, result, ops, faults, certified, aux_vars>>

NextPoll ==
    \/ \E ns \in StoreNamespaces :
         RequestArrives([type |-> "Write", namespace |-> ns, message |-> M1])
    \/ \E ns \in Namespaces : RequestArrives([type |-> "Subscribe", namespace |-> ns])
    \/ ValidatorHandleWrite(0, 1)
    \/ ValidatorHandleSubscribe(0)
    \/ ValidatorFlush(0)

SpecPoll == Init /\ [][NextPoll]_vars

\* ------------------------------------- Validator::poll, a burst that lasts
\* The same validator when the burst of requests outlasts the clock reading:
\* the clock reads 2 once the publisher queue has filled up.
ValidatorHandleWriteLate ==
    /\ Len(publisher_queue[0]) = PublisherQueueCap
    /\ ValidatorHandleWrite(0, 2)

\* Validator::poll, the flush of one queued item when pub_socket.try_publish
\* returns Err: the item has left the queue, the error is logged, nothing is
\* published.
ValidatorFlushFails(v) ==
    /\ publisher_queue[v] # <<>>
    /\ publisher_queue' = [publisher_queue EXCEPT ![v] = Tail(@)]
    /\ UNCHANGED <<store, active_subscriptions, validators, pc, request, responses,
                   write_locals, read_message_locals, read_locals, result, ops,
                   faults, certified, inserted, published,
                   validator_publisher_sockets, sub_topic, sub_connected,
                   sub_socket, record_sub, delivered>>
    /\ UNCHANGED more_vars

\* Validator::poll, `return Poll::Pending`: neither conn.poll_next_unpin nor
\* publisher_queue_rx.poll_recv returned Ready(Some(..)).  tokio's poll_recv
\* returns Pending when the channel is empty, and also when the task has
\* used up its cooperative budget, whatever the channel holds.  The channel
\* is a local of poll: what it holds at the return is dropped with it, and
\* the next poll starts with a new, empty channel.
ValidatorPollPending(v) ==
    /\ stranded' = stranded \cup {publisher_queue[v][k] : k \in 1 .. Len(publisher_queue[v])}
    /\ publisher_queue' = [publisher_queue EXCEPT ![v] = <<>>]
    /\ UNCHANGED <<store, active_subscriptions, validators, pc, request, responses,
                   write_locals, read_message_locals, read_locals, result, ops,
                   faults, certified, inserted, published, sub_vars, task_vars,
                   cert_vars, send_failed, parse_errors, quorum_sets, rc_vars>>

NextSuspend ==
    \/ NextPoll
    \/ ValidatorPollPending(0)

SpecSuspend == Init /\ [][NextSuspend]_vars

NextBurst ==
    \/ NextPoll
    \/ ValidatorHandleWriteLate
    \/ ValidatorFlushFails(0)

SpecBurst == Init /\ [][NextBurst]_vars

\* ------------------------------------------ Validator::poll, bad requests
\* The same validator when some of the requests are not a serialized Request.
MaxParseErrors == 2

\* Bytes that serde_json::from_slice::<Request> rejects.
Unparsable == [type |-> "Unparsable"]

UnparsableArrives ==
    /\ parse_errors < MaxParseErrors
    /\ RequestArrives(Unparsable)

NextParse ==
    \/ NextPoll
    \/ UnparsableArrives
    \/ ValidatorHandleUnparsable(0)

SpecParse == Init /\ [][NextParse]_vars

\* ------------------------------------------- Client::subscribe and writes
\* A client that subscribes to a namespace and writes, with the validators'
\* publishers and the spawned subscription task running beside it.
NumValidatorsSubscribe == 2
SubscribeIndices == 0 .. (NumValidatorsSubscribe - 1)

NextSubscribe ==
    \/ \E index \in SubscribeIndices : connect_validator(index)
    \/ \E ns \in Namespaces : ClientSubscribe(ns)
    \/ \E v \in SubscribeIndices : ValidatorHandleSubscribe(v)
    \/ \E index \in SubscribeIndices : ClientSubscribeRecv(index)
    \/ \E index \in SubscribeIndices : ClientSubscribeNone(index)
    \/ ClientSubscribeEnd
    \/ \E index \in SubscribeIndices : SubConnect(<<index, index>>)
    \/ \E ns \in Namespaces, m \in Messages : ClientWrite(ns, m)
    \/ \E v \in SubscribeIndices, t \in Times : ValidatorHandleWrite(v, t)
    \/ \E index \in SubscribeIndices : ClientWriteRecv(index)
    \/ \E index \in SubscribeIndices : ClientWriteNone(index)
    \/ ClientWriteEnd
    \/ \E v \in SubscribeIndices : ValidatorFlush(v)
    \/ \E v \in SubscribeIndices : SubSocketNext(v)
    \/ StreamNext

SpecSubscribe == Init /\ [][NextSubscribe]_vars

\* ------------------------------- Client::subscribe_certified and writes
\* A client that subscribes to certificates of a namespace and writes one
\* messages to it, over up to three validators whose clocks read the same.
NumValidatorsCertified == 3
CertifiedIndices == 0 .. (NumValidatorsCertified - 1)

\* The validators are registered in index order, as the tests do.
ConnectNextValidator ==
    /\ n_validators \in CertifiedIndices
    /\ connect_validator(n_validators)

NextCertified ==
    \/ ConnectNextValidator
    \/ \E ns \in Namespaces : ClientSubscribeCertified(ns)
    \/ \E v \in CertifiedIndices : ValidatorHandleSubscribe(v)
    \/ \E index \in CertifiedIndices : ClientSubscribeRecv(index)
    \/ ClientSubscribeEnd
    \/ \E index \in CertifiedIndices : SubConnect(<<index, index>>)
    \/ \E ns \in Namespaces : ClientWrite(ns, M1)
    \/ \E v \in CertifiedIndices : ValidatorHandleWrite(v, 1)
    \/ \E index \in CertifiedIndices : ClientWriteRecv(index)
    \/ ClientWriteEnd
    \/ \E v \in CertifiedIndices : ValidatorFlush(v)
    \/ \E v \in CertifiedIndices : SubSocketNext(v)
    \/ AggregatorNext
    \/ AggregatorSend
    \/ CertifiedStreamNext
    \/ CertifiedStreamClose

SpecCertified == Init /\ [][NextCertified]_vars

\* ------------------------------------------- forged publications
\* How many forged publications reach the subscriber socket.
MaxForged == 2

\* A key that belongs to no validator.
ForeignKey == Cardinality(AllIndices)

\* What a faulty validator (or whoever answers at its publisher endpoint) may
\* publish on the subscribed topic: a Record of M1 signed by a foreign key,
\* or signed by the validator over another timestamp.
ForgedPublications(v) ==
    LET ns == sub_topic.val
        rec(sig) == to_vec("Record", [timestamp |-> 1, message |-> M1, signature |-> sig])
    IN  { rec(sign_with_prefix(ForeignKey, record_digest(M1, ns, 1))),
          rec(sign_with_prefix(SecretKey(v), record_digest(M1, ns, 2))) }

\* A forged publication arrives on the subscriber socket from the publisher
\* endpoint of validator v.
FaultyPublish(v) ==
    /\ sub_topic # None
    /\ v \in sub_connected
    /\ faults < MaxForged
    /\ faults' = faults + 1
    /\ \E bytes \in ForgedPublications(v) :
         sub_socket' = [sub_socket EXCEPT ![v] = Append(@, bytes)]
    /\ UNCHANGED <<validator_vars, validators, pc, request, responses, write_locals,
                   read_message_locals, read_locals, result, ops, certified,
                   inserted, published, validator_publisher_sockets, sub_topic,
                   sub_connected, record_sub, delivered>>
    /\ UNCHANGED more_vars

\* --------------------------------------------------- Client::read_certified
\* How many validators the registry of the read_certified runs holds.
NumValidatorsReadCertified == 2

\* The variables read_certified leaves to read and read_message.
rc_others == <<inserted, published, sub_vars, task_vars, cert_vars, hist_vars,
               quorum_sets>>

\* The validators are connected in index order before the first operation.
ConnectNextReader ==
    /\ n_validators < NumValidatorsReadCertified
    /\ connect_validator(n_validators)

\* The writes of other callers come before read_certified is called.
WriteBeforeReadCertified ==
    /\ certified_log = None
    /\ \E ns \in Namespaces : ClientWrite(ns, M1)

\* Client::read_certified is called, once, after at most MaxOps writes: it
\* starts with self.read(namespace, start, end).
ClientReadCertified(namespace, start, end) ==
    /\ pc \in {"idle", "done"}
    /\ certified_log = None
    /\ ops <= MaxOps
    /\ ops' = MaxOps + 1
    /\ faults' = 0
    /\ pc' = "read"
    /\ request' = [type |-> "ReadRange", namespace |-> namespace,
                   start |-> start, end |-> end]
    /\ responses' = fan_out
    /\ verify_tasks' = <<>>
    /\ final_log' = None
    /\ result' = NoResult
    /\ ClearWriteLocals
    /\ ClearReadMessageLocals
    /\ log_records' = <<>>
    /\ certified_log' = Some(<<>>)
    /\ read_messages' = <<>>
    /\ UNCHANGED <<validator_vars, validators, certified>>
    /\ UNCHANGED rc_others

\* `let log = self.read(..).await?`: read has returned.  An Err is returned
\* to the caller; otherwise the loop over log.records starts with an empty
\* CertifiedLog.
ReadCertifiedLog ==
    /\ pc = "done"
    /\ certified_log # None
    /\ request.type = "ReadRange"
    /\ IF result.tag = "Ok"
       THEN /\ pc' = "read_certified"
            /\ log_records' = result.val.records
            /\ UNCHANGED certified_log
       ELSE /\ certified_log' = None
            /\ UNCHANGED <<pc, log_records>>
    /\ UNCHANGED <<validator_vars, validators, request, responses, write_locals,
                   read_message_locals, read_locals, result, ops, faults, certified,
                   read_messages>>
    /\ UNCHANGED rc_others

\* The loop takes the next record and calls
\* self.read_message(namespace, record.message_digest(&namespace)).
ReadCertifiedReadMessage ==
    /\ pc = "read_certified"
    /\ log_records # <<>>
    /\ LET namespace == request.namespace
           msg_id == message_digest(Head(log_records).message, namespace)
       IN  request' = [type |-> "ReadMessage", namespace |-> namespace,
                       msg_id |-> msg_id]
    /\ faults' = 0
    /\ pc' = "read_message"
    /\ responses' = fan_out
    /\ available_timestamps' = zeroes(n_validators)
    /\ unavailable_timestamps' = zeroes(n_validators)
    /\ available_quorum_signature' = None
    /\ unavailable_quorum_signature' = None
    /\ available_votes' = 0
    /\ unavailable_votes' = 0
    /\ message' = <<>>
    /\ result' = NoResult
    /\ ClearWriteLocals
    /\ ClearReadLocals
    /\ UNCHANGED <<validator_vars, validators, ops, certified, rc_vars>>
    /\ UNCHANGED rc_others

\* Mutant: an Err of read_message is returned to the caller.
ReadCertifiedMatch_Propagate ==
    /\ pc = "done"
    /\ certified_log # None
    /\ request.type = "ReadMessage"
    /\ read_messages' = Append(read_messages, [msg_id |-> request.msg_id, result |-> result])
    /\ IF result.tag = "Ok"
       THEN /\ pc' = "read_certified"
            /\ log_records' = Tail(log_records)
            /\ certified_log' =
                 IF result.val.type = "Available"
                 THEN Some(Append(certified_log.val, result.val.val))
                 ELSE certified_log
       ELSE /\ certified_log' = None
            /\ log_records' = <<>>
            /\ UNCHANGED pc
    /\ UNCHANGED <<validator_vars, validators, request, responses, write_locals,
                   read_message_locals, read_locals, result, ops, faults, certified>>
    /\ UNCHANGED rc_others

\* read_message has returned: an Available certificate is pushed onto the
\* CertifiedLog, an Unavailable one is skipped, an Err is logged; a panic of
\* read_message unwinds through read_certified.
ReadCertifiedMatch ==
    /\ pc = "done"
    /\ certified_log # None
    /\ request.type = "ReadMessage"
    /\ read_messages' = Append(read_messages, [msg_id |-> request.msg_id, result |-> result])
    /\ IF result.tag = "Panic"
       THEN /\ certified_log' = None
            /\ log_records' = <<>>
            /\ UNCHANGED pc
       ELSE /\ pc' = "read_certified"
            /\ log_records' = Tail(log_records)
            /\ certified_log' =
                 IF result.tag = "Ok" /\ result.val.type = "Available"
                 THEN Some(Append(certified_log.val, result.val.val))
                 ELSE certified_log
    /\ UNCHANGED <<validator_vars, validators, request, responses, write_locals,
                   read_message_locals, read_locals, result, ops, faults, certified>>
    /\ UNCHANGED rc_others

\* The loop is over: Ok(certified_log).
ReadCertifiedEnd ==
    /\ pc = "read_certified"
    /\ log_records = <<>>
    /\ pc' = "done"
    /\ request' = [type |-> "ReadCertified", namespace |-> request.namespace]
    /\ result' = Ok([records |-> certified_log.val])
    /\ certified_log' = None
    /\ UNCHANGED <<validator_vars, validators, responses, write_locals,
                   read_message_locals, read_locals, ops, faults, certified,
                   log_records, read_messages>>
    /\ UNCHANGED rc_others

NextReadCertified ==
    \/ ConnectNextReader
    \/ WriteBeforeReadCertified
    \/ \E v \in Indices, t \in Times : ValidatorHandleWrite(v, t)
    \/ \E index \in Indices : ClientWriteRecv(index)
    \/ ClientWriteEnd
    \/ \E ns \in Namespaces, start \in Times, end \in Times :
         ClientReadCertified(ns, start, end)
    \/ \E v \in Indices : ValidatorHandleReadRange(v)
    \/ \E index \in Indices : ClientReadRecv(index)
    \/ \E index \in Indices : ClientReadNone(index)
    \/ ClientReadEnd
    \/ \E index \in Indices : ClientReadJoin(index)
    \/ ClientReadJoinEnd
    \/ ReadCertifiedLog
    \/ ReadCertifiedReadMessage
    \/ \E v \in Indices : ValidatorHandleReadMessage(v, MaxTime)
    \/ \E v \in Indices : FaultyReadMessageReply(v)
    \/ \E index \in Indices : ClientReadMessageRecv(index)
    \/ \E index \in Indices : ClientReadMessageNone(index)
    \/ ClientReadMessageEnd
    \/ ReadCertifiedMatch
    \/ ReadCertifiedEnd

SpecReadCertified == Init /\ [][NextReadCertified]_vars

\* -------------------------------- subscribe_certified, more digests than room
\* How many digests beyond the capacity of the aggregation map are published,
\* how often the first message is published again, and how much room the
\* map has at most when the run starts.
MaxExtraDigests == 2
MaxRepeats == 2
MaxRoom == 2
FillLevels == (RecordsByIdCap - MaxRoom) .. RecordsByIdCap
EvictNamespace == CHOOSE ns \in Namespaces : TRUE

\* The k-th message written to the namespace by other clients.
Msg(k) == <<k \div 256, k % 256>>

\* The record validator 0 signs and publishes for a message stamped 1.
PublishedRecord(namespace, message_) ==
    [timestamp |-> 1, message |-> message_,
     signature |-> sign_with_prefix(SecretKey(0), record_digest(message_, namespace, 1))]

\* The messages whose records the aggregation task has taken so far.
SeenMessages == { delivered[k].message : k \in 1 .. Len(delivered) }

\* The next publication of validator 0: the next new message, or the first
\* message once more.
NextMessages ==
    LET n == Cardinality(SeenMessages)
    IN  (IF n < RecordsByIdCap + MaxExtraDigests THEN {Msg(n + 1)} ELSE {})
        \cup
        (IF /\ n >= 1
            /\ Cardinality({ k \in 1 .. Len(delivered) : delivered[k].message = Msg(1) })
                  <= MaxRepeats
         THEN {Msg(1)} ELSE {})

\* The record validator 0 has published for a message written by another
\* client arrives on the subscriber socket.  The consumer keeps up: the
\* previous publication has left the pipeline.
PublicationArrives(message_) ==
    /\ sub_topic # None
    /\ 0 \in sub_connected
    /\ \A v \in DOMAIN sub_socket : sub_socket[v] = <<>>
    /\ record_sub = <<>>
    /\ sending = None
    /\ certified_record_sub = <<>>
    /\ message_ \in NextMessages
    /\ sub_socket' =
         [sub_socket EXCEPT ![0] =
            Append(@, to_vec("Record", PublishedRecord(sub_topic.val, message_)))]
    /\ UNCHANGED <<validator_vars, validators, pc, request, responses, write_locals,
                   read_message_locals, read_locals, result, ops, faults, certified,
                   inserted, published, validator_publisher_sockets, sub_topic,
                   sub_connected, record_sub, delivered>>
    /\ UNCHANGED more_vars

PublishNext == \E message_ \in NextMessages : PublicationArrives(message_)

\* The client of validator 0 alone has subscribed to certificates of a
\* namespace, and its aggregation task has taken the records of `held`
\* distinct messages, one certificate each: a state the subscription reaches
\* by `held` rounds of publish, forward, aggregate, send and consume.  Only
\* the client side takes steps here; the validator's variables stay as the
\* Subscribe request left them.
InitEvict ==
    /\ store = [v \in AllIndices |-> [ns \in StoreNamespaces |-> <<>>]]
    /\ active_subscriptions = [v \in AllIndices |-> IF v = 0 THEN {EvictNamespace} ELSE {}]
    /\ publisher_queue = [v \in AllIndices |-> <<>>]
    /\ validators = [i \in {0} |-> PublicKey(i)]
    /\ votes = 0
    /\ pc = "done"
    /\ request = [type |-> "Subscribe", namespace |-> EvictNamespace]
    /\ responses = [i \in {0} |-> [st |-> "taken", bytes |-> to_vec("SubscribeResponse", [port |-> 0, auth_token |-> "noop"])]]
    /\ timestamps = <<>>
    /\ quorum_signature = None
    /\ available_timestamps = <<>>
    /\ unavailable_timestamps = <<>>
    /\ available_quorum_signature = None
    /\ unavailable_quorum_signature = None
    /\ available_votes = 0
    /\ unavailable_votes = 0
    /\ message = <<>>
    /\ verify_tasks = <<>>
    /\ final_log = None
    /\ result = Ok("ReceiverStream")
    /\ ops = 0
    /\ faults = 0
    /\ certified = {}
    /\ inserted = <<>>
    /\ published = [v \in AllIndices |-> {}]
    /\ validator_publisher_sockets = {<<0, 0>>}
    /\ sub_topic = Some(EvictNamespace)
    /\ sub_connected = {0}
    /\ sub_socket = [v \in AllIndices |-> <<>>]
    /\ record_sub = <<>>
    /\ \E held \in FillLevels :
         /\ delivered = [k \in 1 .. held |-> PublishedRecord(EvictNamespace, Msg(k))]
         /\ records_by_id =
              [k \in 1 .. held |->
                 <<message_digest(Msg(k), EvictNamespace),
                   <<PublishedRecord(EvictNamespace, Msg(k))>>>>]
         /\ certified_delivered =
              [k \in 1 .. held |->
                 from_records_unchecked(<<PublishedRecord(EvictNamespace, Msg(k))>>)]
    /\ sub_task_done = FALSE
    /\ record_closed = FALSE
    /\ validators_count = Some(1)
    /\ sending = None
    /\ certified_record_sub = <<>>
    /\ certified_closed = FALSE
    /\ send_failed = FALSE
    /\ parse_errors = 0
    /\ stranded = {}
    /\ quorum_sets = <<{}, {}>>
    /\ log_records = <<>>
    /\ certified_log = None
    /\ read_messages = <<>>

NextEvict ==
    \/ PublishNext
    \/ SubSocketNext(0)
    \/ AggregatorNext
    \/ AggregatorSend
    \/ CertifiedStreamNext

SpecEvict == InitEvict /\ [][NextEvict]_vars

\* A client subscribed to certificates while the publishers send forged
\* records only.
NextForged ==
    \/ ConnectNextValidator
    \/ \E ns \in Namespaces : ClientSubscribeCertified(ns)
    \/ \E v \in CertifiedIndices : ValidatorHandleSubscribe(v)
    \/ \E index \in CertifiedIndices : ClientSubscribeRecv(index)
    \/ ClientSubscribeEnd
    \/ \E index \in CertifiedIndices : SubConnect(<<index, index>>)
    \/ \E v \in CertifiedIndices : FaultyPublish(v)
    \/ \E v \in CertifiedIndices : SubSocketNext(v)
    \/ AggregatorNext
    \/ AggregatorSend
    \/ CertifiedStreamNext

SpecForged == Init /\ [][NextForged]_vars

\* ------------------------------------------- has_reached_quorum on its own
\* Validator counts of the specification that applies has_reached_quorum.
MaxQuorumN == 13

\* The inputs: a client with n validators and a vote count 0 .. n.
InitQuorum ==
    /\ store = [v \in AllIndices |-> [ns \in StoreNamespaces |-> <<>>]]
    /\ active_subscriptions = [v \in AllIndices |-> {}]
    /\ publisher_queue = [v \in AllIndices |-> <<>>]
    /\ \E n \in 0 .. MaxQuorumN :
         /\ validators = [i \in 0 .. (n - 1) |-> PublicKey(i)]
         /\ votes \in 0 .. n
    /\ pc = "quorum"
    /\ request = NoRequest
    /\ responses = <<>>
    /\ timestamps = <<>>
    /\ quorum_signature = None
    /\ available_timestamps = <<>>
    /\ unavailable_timestamps = <<>>
    /\ available_quorum_signature = None
    /\ unavailable_quorum_signature = None
    /\ available_votes = 0
    /\ unavailable_votes = 0
    /\ message = <<>>
    /\ verify_tasks = <<>>
    /\ final_log = None
    /\ result = NoResult
    /\ ops = 0
    /\ faults = 0
    /\ certified = {}
    /\ inserted = <<>>
    /\ published = [v \in AllIndices |-> {}]
    /\ validator_publisher_sockets = {}
    /\ sub_topic = None
    /\ sub_connected = {}
    /\ sub_socket = [v \in AllIndices |-> <<>>]
    /\ record_sub = <<>>
    /\ delivered = <<>>
    /\ sub_task_done = FALSE
    /\ record_closed = FALSE
    /\ validators_count = None
    /\ records_by_id = <<>>
    /\ sending = None
    /\ certified_record_sub = <<>>
    /\ certified_closed = FALSE
    /\ certified_delivered = <<>>
    /\ send_failed = FALSE
    /\ parse_errors = 0
    /\ stranded = {}
    /\ quorum_sets = <<{}, {}>>
    /\ log_records = <<>>
    /\ certified_log = None
    /\ read_messages = <<>>

ApplyQuorum ==
    /\ pc = "quorum"
    /\ result = NoResult
    /\ result' = Ok(has_reached_quorum(n_validators, votes))
    /\ UNCHANGED <<validator_vars, validators, pc, request, responses, write_locals,
                   read_message_locals, ops, faults, certified>>
    /\ UNCHANGED read_locals
    /\ UNCHANGED aux_vars

NextQuorum == ApplyQuorum

SpecQuorum == InitQuorum /\ [][NextQuorum]_vars

\* ------------------------------------ has_reached_quorum on two vote sets
\* Validator counts of the specification that asks has_reached_quorum about
\* two sets of voters.
MaxIntersectN == 5

\* The inputs: a client with n validators and two sets of them.
InitIntersect ==
    /\ store = [v \in AllIndices |-> [ns \in StoreNamespaces |-> <<>>]]
    /\ active_subscriptions = [v \in AllIndices |-> {}]
    /\ publisher_queue = [v \in AllIndices |-> <<>>]
    /\ \E n \in 1 .. MaxIntersectN :
         /\ validators = [i \in 0 .. (n - 1) |-> PublicKey(i)]
         /\ quorum_sets \in (SUBSET (0 .. (n - 1))) \X (SUBSET (0 .. (n - 1)))
    /\ log_records = <<>>
    /\ certified_log = None
    /\ read_messages = <<>>
    /\ votes = 0
    /\ pc = "intersect"
    /\ request = NoRequest
    /\ responses = <<>>
    /\ timestamps = <<>>
    /\ quorum_signature = None
    /\ available_timestamps = <<>>
    /\ unavailable_timestamps = <<>>
    /\ available_quorum_signature = None
    /\ unavailable_quorum_signature = None
    /\ available_votes = 0
    /\ unavailable_votes = 0
    /\ message = <<>>
    /\ verify_tasks = <<>>
    /\ final_log = None
    /\ result = NoResult
    /\ ops = 0
    /\ faults = 0
    /\ certified = {}
    /\ inserted = <<>>
    /\ published = [v \in AllIndices |-> {}]
    /\ validator_publisher_sockets = {}
    /\ sub_topic = None
    /\ sub_connected = {}
    /\ sub_socket = [v \in AllIndices |-> <<>>]
    /\ record_sub = <<>>
    /\ delivered = <<>>
    /\ sub_task_done = FALSE
    /\ record_closed = FALSE
    /\ validators_count = None
    /\ records_by_id = <<>>
    /\ sending = None
    /\ certified_record_sub = <<>>
    /\ certified_closed = FALSE
    /\ certified_delivered = <<>>
    /\ send_failed = FALSE
    /\ parse_errors = 0
    /\ stranded = {}

\* has_reached_quorum applied to the sizes of both sets.
ApplyIntersect ==
    /\ pc = "intersect"
    /\ result = NoResult
    /\ result' = Ok(<<has_reached_quorum(n_validators, Cardinality(quorum_sets[1])),
                      has_reached_quorum(n_validators, Cardinality(quorum_sets[2]))>>)
    /\ UNCHANGED <<validator_vars, validators, pc, request, responses, write_locals,
                   read_message_locals, ops, faults, certified>>
    /\ UNCHANGED read_locals
    /\ UNCHANGED aux_vars

NextIntersect == ApplyIntersect

SpecIntersect == InitIntersect /\ [][NextIntersect]_vars

\* --------------------------------------------- certified_timestamp on its own
\* Lengths of the timestamps vectors certified_timestamp is applied to.
MaxMedianLen == 4

\* Timestamps of a certificate: a validator's clock reading, or zero for a
\* validator that was not counted.
Times0 == 0 .. MaxTime

\* The inputs: a CertifiedRecord (timestamps) and a
\* CertifiedUnavailableMessage (unavailable_timestamps) that carry the same
\* vector; available_timestamps keeps the vector as it was given.
InitMedian ==
    /\ store = [v \in AllIndices |-> [ns \in StoreNamespaces |-> <<>>]]
    /\ active_subscriptions = [v \in AllIndices |-> {}]
    /\ publisher_queue = [v \in AllIndices |-> <<>>]
    /\ validators = <<>>
    /\ votes = 0
    /\ pc = "median"
    /\ request = NoRequest
    /\ responses = <<>>
    /\ \E len \in 1 .. MaxMedianLen :
         timestamps \in [1 .. len -> Times0]
    /\ quorum_signature = None
    /\ available_timestamps = timestamps
    /\ unavailable_timestamps = timestamps
    /\ available_quorum_signature = None
    /\ unavailable_quorum_signature = None
    /\ available_votes = 0
    /\ unavailable_votes = 0
    /\ message = <<>>
    /\ verify_tasks = <<>>
    /\ final_log = None
    /\ result = NoResult
    /\ ops = 0
    /\ faults = 0
    /\ certified = {}
    /\ inserted = <<>>
    /\ published = [v \in AllIndices |-> {}]
    /\ validator_publisher_sockets = {}
    /\ sub_topic = None
    /\ sub_connected = {}
    /\ sub_socket = [v \in AllIndices |-> <<>>]
    /\ record_sub = <<>>
    /\ delivered = <<>>
    /\ sub_task_done = FALSE
    /\ record_closed = FALSE
    /\ validators_count = None
    /\ records_by_id = <<>>
    /\ sending = None
    /\ certified_record_sub = <<>>
    /\ certified_closed = FALSE
    /\ certified_delivered = <<>>
    /\ send_failed = FALSE
    /\ parse_errors = 0
    /\ stranded = {}
    /\ quorum_sets = <<{}, {}>>
    /\ log_records = <<>>
    /\ certified_log = None
    /\ read_messages = <<>>

\* certified_timestamp() called on both certificates.
ApplyCertifiedTimestamp ==
    /\ pc = "median"
    /\ result = NoResult
    /\ timestamps' = certified_timestamp(timestamps).timestamps
    /\ unavailable_timestamps' =
          unavailable_certified_timestamp(unavailable_timestamps).timestamps
    /\ result' = Ok([record |-> certified_timestamp(timestamps).median,
                     unavailable |->
                        unavailable_certified_timestamp(unavailable_timestamps).median])
    /\ UNCHANGED <<validator_vars, validators, pc, request, responses,
                   quorum_signature, votes, available_timestamps,
                   available_quorum_signature, unavailable_quorum_signature,
                   available_votes, unavailable_votes, message, ops, faults,
                   certified>>
    /\ UNCHANGED read_locals
    /\ UNCHANGED aux_vars

NextMedian == ApplyCertifiedTimestamp

SpecMedian == InitMedian /\ [][NextMedian]_vars

\* ----------------------------------------------------------------- claims
\* The futures whose reply the loop counted as a vote.
Counted == { i \in DOMAIN responses : responses[i].st = "taken" }

\* Client::write has returned a CertifiedRecord.
WriteReturnedOk == pc = "done" /\ request.type = "Write" /\ result.tag = "Ok"

\* The quorum rule as the specification states it: every vote when n <= 2,
\* at least ceil(2n/3) votes when n >= 3.
quorum(n, v) == IF n <= 2 THEN v = n ELSE v >= (2 * n + 2) \div 3

\* C4: for 0 <= v <= n, has_reached_quorum(n, v) is v = n when n <= 2 and
\* v >= ceil(2n/3) when n >= 3.
C4_QuorumIsCeilTwoThirds ==
    (pc = "quorum" /\ result.tag = "Ok") =>
        result.val = quorum(n_validators, votes)

\* The validators are registered under the indices 0 .. n-1.
ContiguousIndices == DOMAIN validators = 0 .. (n_validators - 1)

\* The reply of future i is a Record with the requested message, signed by
\* validator i over RecordDigest(namespace, timestamp, message).
ValidWriteVote(i) ==
    LET bytes == responses[i].bytes
    IN  /\ bytes.type = "Record"
        /\ bytes.val.message = request.message
        /\ bytes.val.signature =
             [signer |-> PublicKey(i),
              digest |-> request.namespace \o to_le_bytes(bytes.val.timestamp)
                           \o request.message]

\* C1: when Client::write returns a CertifiedRecord, the counted votes
\* satisfy the quorum rule for n, each comes from a distinct validator whose
\* reply carried the requested message and a signature valid under that
\* validator's key over the record digest, and the aggregate signature is
\* the sum of exactly those votes' signatures.
C1_CertificateIsQuorumOfValidVotes ==
    WriteReturnedOk =>
        /\ votes = Cardinality(Counted)
        /\ quorum(n_validators, Cardinality(Counted))
        /\ \A i \in Counted : ValidWriteVote(i)
        /\ BagCardinality(result.val.quorum_signature) = Cardinality(Counted)
        /\ \A i \in Counted :
             CopiesIn(responses[i].bytes.val.signature, result.val.quorum_signature) = 1

C3_TimestampsIndexedByValidator ==
    WriteReturnedOk =>
        \A i \in 0 .. (n_validators - 1) :
            result.val.timestamps[i + 1] =
                IF i \in Counted THEN responses[i].bytes.val.timestamp ELSE 0

\* C5: if a quorum of validators reply with valid matching records, write
\* returns a CertifiedRecord whatever the other validators' requests do: a
\* request of another validator that fails or times out, in whatever order
\* it completes, does not end the collection.
C5_FailedRequestOnlyRemovesVote ==
    [][ (/\ pc = "write"
         /\ pc' = "done"
         /\ n_validators >= 1
         /\ ContiguousIndices
         /\ LET replying == { i \in DOMAIN responses :
                                /\ responses[i].st \in {"replied", "taken"}
                                /\ responses'[i].st # "failed"
                                /\ ValidWriteVote(i) }
            IN  quorum(n_validators, Cardinality(replying)))
        => result'.tag = "Ok" ]_vars

\* The reply of future i was a record of another message, and was skipped.
OtherMessageSkipped(i) ==
    /\ responses[i].st = "skipped"
    /\ responses[i].bytes.type = "Record"
    /\ responses[i].bytes.val.message # request.message

\* C6: Client::write fails with NoQuorum{got, needed} exactly when reply
\* processing ends with a vote count that does not satisfy the quorum rule;
\* got is the number of votes counted, needed is n.  With n = 2, one
\* validator voting and the other returning a record with another message,
\* the failure is NoQuorum{got: 1, needed: 2}.
C6_NoQuorumIffVotesBelowQuorum ==
    (pc = "done" /\ request.type = "Write" /\ result # Panic("index out of bounds")) =>
        /\ (result.tag = "Err") <=> ~quorum(n_validators, Cardinality(Counted))
        /\ result.tag = "Err" =>
             result.err = [type |-> "NoQuorum", got |-> Cardinality(Counted),
                           needed |-> n_validators]
        /\ (/\ DOMAIN validators = {0, 1}
            /\ \E i, j \in {0, 1} : i # j /\ OtherMessageSkipped(i) /\ j \in Counted)
           => result = Err([type |-> "NoQuorum", got |-> 1, needed |-> 2])

\* The reply of future i is not a valid vote for the request.
BadWriteReply(i) == ~ValidWriteVote(i)

\* C7: in Client::write a reply that does not parse as a Record, carries
\* another message, or whose signature does not verify under the replying
\* validator's key is skipped: the vote count, the aggregate signature and
\* the timestamp slots are unchanged, and the loop goes on to the remaining
\* replies.
C7_BadReplyIsSkipped ==
    [][ \A i \in DOMAIN responses :
          (/\ pc = "write"
           /\ responses[i].st = "replied"
           /\ responses'[i].st \in {"taken", "skipped"}
           /\ BadWriteReply(i))
          => /\ votes' = votes
             /\ quorum_signature' = quorum_signature
             /\ timestamps' = timestamps
             /\ pc' = "write"
             /\ result' = result
             /\ \A j \in DOMAIN responses \ {i} : responses'[j] = responses[j] ]_vars

\* A reply with another message was skipped with no vote counted yet, and a
\* reply of another validator is still to be processed.
C7_Witness ==
    /\ pc = "write"
    /\ votes = 0
    /\ quorum_signature = None
    /\ \E i \in DOMAIN responses : OtherMessageSkipped(i)
    /\ \E j \in DOMAIN responses : responses[j].st = "replied"

\* The operation in progress met no forged reply and no request failed or
\* timed out, and the validators are registered under 0 .. n-1, n >= 1.
HonestAndResponsive ==
    /\ faults = 0
    /\ \A i \in DOMAIN responses : responses[i].st # "failed"
    /\ n_validators >= 1
    /\ ContiguousIndices

\* Client::read_message has returned.
ReadMessageReturned == pc = "done" /\ request.type = "ReadMessage"

\* Validator v holds a record with message m in namespace ns.
HeldBy(v, ns, m) ==
    \E k \in 1 .. Len(store[v][ns]) : store[v][ns][k][2].message = m

\* C8: for a msg_id whose message was never written to any validator,
\* Client::read_message against honest, responsive validators returns
\* Unavailable with the requested msg_id, a timestamps vector of length n and
\* unavailable votes that satisfy the quorum rule.
C8_NeverWrittenIsUnavailable ==
    (/\ ReadMessageReturned
     /\ HonestAndResponsive
     /\ \A v \in AllIndices, m \in Messages :
           HeldBy(v, request.namespace, m)
             => message_digest(m, request.namespace) # request.msg_id)
    => /\ result.tag = "Ok"
       /\ result.val.type = "Unavailable"
       /\ result.val.val.msg_id = request.msg_id
       /\ Len(result.val.val.timestamps) = n_validators
       /\ quorum(n_validators, unavailable_votes)

\* C9: after Client::write(ns, m) has returned a certificate, and while every
\* connected validator still holds a record of m, Client::read_message(ns,
\* MessageDigest(ns, m)) against honest, responsive validators returns
\* Available with message m.
C9_WrittenMessageIsAvailable ==
    \A m \in Messages :
        (/\ ReadMessageReturned
         /\ HonestAndResponsive
         /\ <<request.namespace, m>> \in certified
         /\ request.msg_id = message_digest(m, request.namespace)
         /\ \A v \in DOMAIN validators : HeldBy(v, request.namespace, m))
        => /\ result.tag = "Ok"
           /\ result.val.type = "Available"
           /\ result.val.val.message = m

\* C10: Client::read_message returns as soon as a counted vote makes the
\* available votes or the unavailable votes satisfy the quorum rule or makes
\* their sum n; what it returns is Available if the available votes satisfy
\* the rule, else Unavailable if the unavailable votes do, else
\* NoQuorum{available, unavailable} with the two vote counts.
C10_ReadMessageStopsAndReturnsBySide ==
    /\ (pc = "read_message" /\ available_votes + unavailable_votes > 0)
         => /\ ~quorum(n_validators, available_votes)
            /\ ~quorum(n_validators, unavailable_votes)
            /\ available_votes + unavailable_votes < n_validators
    /\ ReadMessageReturned =>
         IF quorum(n_validators, available_votes)
         THEN result.tag = "Ok" /\ result.val.type = "Available"
         ELSE IF quorum(n_validators, unavailable_votes)
         THEN result.tag = "Ok" /\ result.val.type = "Unavailable"
         ELSE result = Err([type |-> "NoQuorum", available |-> available_votes,
                            unavailable |-> unavailable_votes])

\* The reply of future i is an Available record whose message has the
\* requested digest, signed by validator i over the record digest.
ValidAvailableVote(i) ==
    LET bytes == responses[i].bytes
    IN  /\ bytes.type = "Available"
        /\ request.namespace \o bytes.val.message = request.msg_id
        /\ bytes.val.signature =
             [signer |-> PublicKey(i),
              digest |-> request.namespace \o to_le_bytes(bytes.val.timestamp)
                           \o bytes.val.message]

\* C11: Client::read_message counts an Available reply as an available vote
\* only if the digest of its message is the requested msg_id and its
\* signature verifies under the replying validator's key; the message of a
\* returned Available certificate has digest msg_id.
C11_AvailableVoteMatchesMsgId ==
    /\ [][ \A i \in DOMAIN responses :
              (/\ pc = "read_message"
               /\ responses[i].st = "replied"
               /\ responses'[i].st = "taken"
               /\ available_votes' = available_votes + 1)
              => ValidAvailableVote(i) ]_vars
    /\ [] ((ReadMessageReturned /\ result.tag = "Ok" /\ result.val.type = "Available")
            => request.namespace \o result.val.val.message = request.msg_id)

\* An Available certificate was returned on one counted Available vote.
C11_Witness ==
    /\ ReadMessageReturned
    /\ result.tag = "Ok"
    /\ result.val.type = "Available"
    /\ available_votes = 1
    /\ \E i \in DOMAIN responses : responses[i].st = "taken" /\ ValidAvailableVote(i)

\* Client::read has returned.
ReadReturned == pc = "done" /\ request.type = "ReadRange"

\* The elements of a sequence.
Range(seq) == { seq[k] : k \in 1 .. Len(seq) }

\* The reply of validator i reached the client, is a Log, and every record of
\* it is signed by validator i over its record digest.
GoodReadReply(i) ==
    LET bytes == responses[i].bytes
    IN  /\ responses[i].st \in {"taken", "lost"}
        /\ bytes.type = "Log"
        /\ \A k \in 1 .. Len(bytes.val) :
              bytes.val[k].signature =
                [signer |-> PublicKey(i),
                 digest |-> request.namespace \o to_le_bytes(bytes.val[k].timestamp)
                              \o bytes.val[k].message]

\* C12: Client::read returns the merge of the logs of every validator whose
\* reply arrived, parsed and had every signature verify; a bad reply or a
\* failed request removes that validator's records only, whatever the order
\* in which replies and verification tasks complete.
C12_ReadMergesEverySurvivingLog ==
    ReadReturned =>
        /\ result.tag = "Ok"
        /\ Range(result.val.records) =
             UNION { Range(responses[i].bytes.val) :
                       i \in { j \in DOMAIN responses : GoodReadReply(j) } }
        /\ Len(result.val.records) = Cardinality(Range(result.val.records))

\* C13: Client::read always returns Ok, and the records of the returned Log
\* are in non-decreasing timestamp order.
C13_ReadIsOkAndSorted ==
    ReadReturned =>
        /\ result.tag = "Ok"
        /\ \A k \in 1 .. (Len(result.val.records) - 1) :
              result.val.records[k].timestamp <= result.val.records[k + 1].timestamp

\* Logs were merged out of timestamp order, and the returned Log is sorted.
C13_Witness ==
    /\ ReadReturned
    /\ final_log.tag = "Some"
    /\ \E k \in 1 .. (Len(final_log.val) - 1) :
          final_log.val[k].timestamp > final_log.val[k + 1].timestamp
    /\ Len(result.val.records) = Len(final_log.val)

\* No reply of the read in progress was forged and no request failed.
ReadHonest ==
    /\ faults = 0
    /\ \A i \in DOMAIN responses : responses[i].st # "failed"

\* The positions of validator v's records of message m in its bucket of ns.
RecordsOf(v, ns, m) ==
    { k \in 1 .. Len(store[v][ns]) : store[v][ns][k][2].message = m }

\* Write(ns, m) was certified and every connected validator holds exactly
\* one record of m, stamped within the range of the read that has returned.
WrittenEverywhere(m) ==
    /\ ReadReturned
    /\ ReadHonest
    /\ n_validators >= 1
    /\ <<request.namespace, m>> \in certified
    /\ \A v \in DOMAIN validators :
          /\ Cardinality(RecordsOf(v, request.namespace, m)) = 1
          /\ \A k \in RecordsOf(v, request.namespace, m) :
                /\ request.start <= store[v][request.namespace][k][2].timestamp
                /\ store[v][request.namespace][k][2].timestamp <= request.end

\* C14: after Client::write(ns, m) has succeeded and every one of the n live
\* honest validators has processed its Write, Client::read over a range that
\* covers the write returns one Record with message m per validator, n in
\* total.
C14_ReadReturnsOneRecordPerValidator ==
    \A m \in Messages :
        WrittenEverywhere(m) =>
            /\ result.tag = "Ok"
            /\ \A v \in DOMAIN validators :
                  Cardinality({ k \in 1 .. Len(result.val.records) :
                                  /\ result.val.records[k].message = m
                                  /\ result.val.records[k].signature.signer = PublicKey(v) }) = 1
            /\ Cardinality({ k \in 1 .. Len(result.val.records) :
                              result.val.records[k].message = m }) = n_validators

\* Three validators hold the certified message and the read returned.
C14_Witness ==
    /\ n_validators = 3
    /\ \E m \in Messages : WrittenEverywhere(m)
    /\ Len(result.val.records) = 3

\* ------------------------------------------------------------ the store
\* The bucket of validator 0's store for a namespace, the records it holds,
\* and the records handed to write_one for the namespace, in call order.
Bucket(ns) == store[0][ns]
Held(ns) == { Bucket(ns)[k][2] : k \in 1 .. Len(Bucket(ns)) }
InsertedInto(ns) ==
    LET w == SelectSeq(inserted, LAMBDA e : e[1] = ns)
    IN  [k \in 1 .. Len(w) |-> w[k][2]]
DistinctDigests(w, ns) ==
    \A a, b \in 1 .. Len(w) :
        a # b => Record_digest(w[a], ns) # Record_digest(w[b], ns)
LastOf(w, c) == { w[k] : k \in { j \in 1 .. Len(w) : j > Len(w) - c } }
ReadRangeReturned == pc = "idle" /\ request.type = "ReadRange"
Covering == request.start = 1 /\ request.end = MaxTime

\* C15: no bucket ever holds more than StoreCap records, and after inserts of
\* distinct record digests into a namespace read_range over the whole time
\* range returns exactly the last StoreCap of them: after StoreCap + 1
\* inserts the first one is gone and the other StoreCap remain.
C15_StoreIsBoundedFIFO ==
    /\ \A ns \in StoreNamespaces : Len(Bucket(ns)) <= StoreCap
    /\ (ReadRangeReturned /\ Covering
          /\ DistinctDigests(InsertedInto(request.namespace), request.namespace))
         => Range(result.records) = LastOf(InsertedInto(request.namespace), StoreCap)

C15_Witness ==
    /\ ReadRangeReturned /\ Covering
    /\ LET w == InsertedInto(request.namespace)
       IN  /\ Len(w) = StoreCap + 1
           /\ DistinctDigests(w, request.namespace)
           /\ w[1] \notin Range(result.records)
           /\ \A k \in 2 .. Len(w) : w[k] \in Range(result.records)

\* C16: write_one of a record whose RecordDigest is already held in the
\* bucket replaces that record where it stands: the bucket keeps its length,
\* every other entry stays at its position, nothing is evicted.
C16_DuplicateOverwritesInPlace ==
    [][ \A ns \in StoreNamespaces :
          (/\ Len(inserted') = Len(inserted) + 1
           /\ inserted'[Len(inserted')][1] = ns
           /\ \E r \in Held(ns) :
                Record_digest(r, ns) = Record_digest(inserted'[Len(inserted')][2], ns))
          => /\ Len(store'[0][ns]) = Len(Bucket(ns))
             /\ \A k \in 1 .. Len(Bucket(ns)) :
                  IF Record_digest(Bucket(ns)[k][2], ns)
                       = Record_digest(inserted'[Len(inserted')][2], ns)
                  THEN store'[0][ns][k][2] = inserted'[Len(inserted')][2]
                  ELSE store'[0][ns][k] = Bucket(ns)[k] ]_vars

\* A full bucket whose oldest record was overwritten by the last write_one.
C16_Witness ==
    \E ns \in StoreNamespaces :
        LET w == InsertedInto(ns)
        IN  /\ Len(w) = StoreCap + 1
            /\ DistinctDigests(SubSeq(w, 1, StoreCap), ns)
            /\ Record_digest(w[Len(w)], ns) = Record_digest(w[1], ns)
            /\ w[Len(w)] # w[1]
            /\ Len(Bucket(ns)) = StoreCap
            /\ Bucket(ns)[1][2] = w[Len(w)]

\* C17: read_range(ns, start, end) returns exactly the records held in the
\* bucket of ns with start <= timestamp <= end, each once, and an empty Log
\* for a namespace that was never written.
C17_ReadRangeIsInclusive ==
    ReadRangeReturned =>
        /\ Range(result.records) =
             { r \in Held(request.namespace) :
                 request.start <= r.timestamp /\ r.timestamp <= request.end }
        /\ Len(result.records) = Cardinality(Range(result.records))
        /\ InsertedInto(request.namespace) = <<>> => result.records = <<>>

\* A range of one instant that returns a record and leaves another one out.
C17_Witness ==
    /\ ReadRangeReturned
    /\ request.start = request.end
    /\ \E r \in Range(result.records) : r.timestamp = request.end
    /\ \E r \in Held(request.namespace) : r \notin Range(result.records)

\* The held records of the requested namespace whose message digest is the
\* requested id, by position in the bucket.
MatchingPositions ==
    { k \in 1 .. Len(Bucket(request.namespace)) :
        message_digest(Bucket(request.namespace)[k][2].message, request.namespace)
          = request.msg_id }

\* C18: read_message(ns, msg_id) returns the most recently inserted held
\* record whose MessageDigest is msg_id, and None only when no held record
\* has that message digest.
C18_ReadMessageIsByMessageDigest ==
    (pc = "idle" /\ request.type = "ReadMessage") =>
        IF MatchingPositions = {}
        THEN result = None
        ELSE /\ result.tag = "Some"
             /\ result.val =
                  Bucket(request.namespace)
                    [CHOOSE k \in MatchingPositions :
                        \A j \in MatchingPositions : j <= k][2]

\* ------------------------------------------------------------ publishing
\* The step in which validator v handles the Write request on the wire, and
\* whether that step puts (namespace, serialized record) at the end of the
\* publisher queue.
HandlesWrite(v) ==
    /\ request.type = "Write"
    /\ v \in DOMAIN responses
    /\ responses[v].st = "sent"
    /\ v \in DOMAIN responses'
    /\ responses'[v].st = "replied"
    /\ responses'[v].bytes.type = "Record"
Enqueued(v) ==
    publisher_queue'[v] =
        Append(publisher_queue[v], <<request.namespace, responses'[v].bytes>>)

\* Nothing of a namespace that is not subscribed at validator v waits in its
\* publisher queue or was handed to its publisher socket, and only the oldest
\* queued item is ever handed over.
OnlySubscribedPublished ==
    /\ [] (\A v \in AllIndices, ns \in StoreNamespaces :
             ns \notin active_subscriptions[v] =>
                /\ \A k \in 1 .. Len(publisher_queue[v]) : publisher_queue[v][k][1] # ns
                /\ \A p \in published[v] : p[1] # from_utf8_lossy(ns))
    /\ [][ \A v \in AllIndices :
             published'[v] # published[v] =>
                /\ publisher_queue[v] # <<>>
                /\ published'[v] =
                     published[v] \cup
                       { <<from_utf8_lossy(Head(publisher_queue[v])[1]),
                           Head(publisher_queue[v])[2]>> } ]_vars

\* C19 (as stated): handling Write(ns, m) enqueues the serialized record for
\* publication if and only if ns is in active_subscriptions at that moment,
\* and records of a namespace that is not subscribed are never published.
C19_EnqueuedIffSubscribed ==
    /\ [][ \A v \in AllIndices :
             HandlesWrite(v) =>
                /\ Enqueued(v) <=> request.namespace \in active_subscriptions[v]
                /\ Enqueued(v) \/ publisher_queue'[v] = publisher_queue[v] ]_vars
    /\ OnlySubscribedPublished

\* C19 (amended): handling Write(ns, m) enqueues the serialized record for
\* publication if and only if ns is in active_subscriptions at that moment
\* and the publisher queue holds fewer than PublisherQueueCap items; records
\* of a namespace that is not subscribed are never published.
C19_EnqueuedIffSubscribedAndRoom ==
    /\ [][ \A v \in AllIndices :
             HandlesWrite(v) =>
                /\ Enqueued(v) <=>
                     /\ request.namespace \in active_subscriptions[v]
                     /\ Len(publisher_queue[v]) < PublisherQueueCap
                /\ Enqueued(v) \/ publisher_queue'[v] = publisher_queue[v] ]_vars
    /\ OnlySubscribedPublished

\* Validator 0 holds records of a namespace it has no subscription for and
\* records of a subscribed namespace, one published and one still queued.
C19_Witness ==
    /\ store[0][OtherNamespace] # <<>>
    /\ OtherNamespace \notin active_subscriptions[0]
    /\ publisher_queue[0] # <<>>
    /\ published[0] # {}
    /\ \A ns \in Namespaces : store[0][ns] # <<>> /\ ns \in active_subscriptions[0]

\* ---------------------------------------------------------- subscription
\* The stream of a client with the single validator v is active: the spawned
\* task's subscription is registered at v's publisher.
ActiveStream(v) ==
    /\ DOMAIN validators = {v}
    /\ sub_topic # None
    /\ v \in sub_connected
    /\ validator_publisher_sockets = {<<v, v>>}

\* The records of the subscribed namespace on their way from validator v to
\* the consumer, oldest first: yielded by the stream, in the Record channel,
\* at the SubSocket, in v's publisher queue.
QueuedRecords(v) ==
    LET q == SelectSeq(publisher_queue[v], LAMBDA item : item[1] = sub_topic.val)
    IN  [k \in 1 .. Len(q) |-> q[k][2].val]
SentRecords(v) == [k \in 1 .. Len(sub_socket[v]) |-> sub_socket[v][k].val]
Pipeline(v) == delivered \o record_sub \o SentRecords(v) \o QueuedRecords(v)

\* The step in which validator v handles the Write request on the wire,
\* whether or not the client still waits for the reply.
WriteHandled(v) ==
    /\ request.type = "Write"
    /\ v \in DOMAIN responses
    /\ responses[v].st = "sent"
    /\ responses'[v].st \in {"replied", "dropped"}

NoChannelFull(v) ==
    /\ Len(publisher_queue[v]) < PublisherQueueCap
    /\ Len(record_sub) < RecordSubCap

EmittedCertificates == certified_delivered \o certified_record_sub

\* C21: subscribe_certified emits exactly one CertifiedRecord per message
\* digest, built when the bucket reaches the quorum size: no two emitted
\* certificates carry the same message, and every emitted certificate has
\* exactly as many timestamps as the smallest bucket that is a quorum.
C21_OneCertificatePerDigest ==
    validators_count # None =>
        /\ \A i, j \in 1 .. Len(EmittedCertificates) :
              EmittedCertificates[i].message = EmittedCertificates[j].message => i = j
        /\ \A i \in 1 .. Len(EmittedCertificates) :
              LET len == Len(EmittedCertificates[i].timestamps)
              IN  /\ has_reached_quorum(validators_count.val, len)
                  /\ ~has_reached_quorum(validators_count.val, len - 1)

\* ------------------------------------------------------------------- C22
\* The validators whose signatures an aggregate holds.
SignersOf(quorum_signature_) == { sig.signer : sig \in BagToSet(quorum_signature_) }

\* C22: every certificate subscribe_certified emits aggregates records of at
\* least a quorum of distinct validators: several records of one validator
\* never bring a bucket to quorum.
C22_QuorumOfDistinctValidators ==
    validators_count # None =>
        \A i \in 1 .. Len(EmittedCertificates) :
            \E v \in 0 .. validators_count.val :
                /\ v <= Cardinality(SignersOf(EmittedCertificates[i].quorum_signature))
                /\ quorum(validators_count.val, v)

\* ------------------------------------------------------------------- C23
\* How many entries of ts equal x.
CountOf(ts, x) == Cardinality({ k \in 1 .. Len(ts) : ts[k] = x })

\* The ascending arrangement of the entries of ts.
Ascending(ts) ==
    CHOOSE s \in [1 .. Len(ts) -> Range(ts)] :
        /\ \A i, j \in 1 .. Len(ts) : i < j => s[i] <= s[j]
        /\ \A x \in Range(ts) : CountOf(s, x) = CountOf(ts, x)

\* The median of a non-empty vector: the middle entry of the ascending
\* arrangement, or the floor average of its two central entries.
MedianOf(ts) ==
    LET s == Ascending(ts)
        n == Len(ts)
    IN  IF n % 2 = 1 THEN s[(n + 1) \div 2]
        ELSE (s[n \div 2] + s[(n \div 2) + 1]) \div 2

\* C23: certified_timestamp returns the median of the full timestamps vector,
\* zero entries included (middle entry for an odd length, floor average of
\* the two central entries for an even length), and CertifiedRecord and
\* CertifiedUnavailableMessage return the same value for the same vector.
C23_CertifiedTimestampIsMedian ==
    (pc = "median" /\ result.tag = "Ok") =>
        /\ result.val.record = MedianOf(available_timestamps)
        /\ result.val.unavailable = result.val.record

\* Both methods have acted on an unsorted vector of even length that holds a
\* zero entry.
C23_Witness ==
    /\ pc = "median"
    /\ result.tag = "Ok"
    /\ available_timestamps = <<2, 0, 1, 2>>
    /\ result.val.record = 1

\* ------------------------------------------------------------------- C24
\* The timestamp validator v signed for the one message written.
StampOf(v) == store[v][request.namespace][1][2].timestamp

\* The number of votes at which the write loop breaks.
VotesAtQuorum == CHOOSE v \in 0 .. n_validators :
                    /\ has_reached_quorum(n_validators, v)
                    /\ \A w \in 0 .. (v - 1) : ~has_reached_quorum(n_validators, w)

\* The timestamps vector Client::write fills when the replies arrive in index
\* order.
TimestampsInIndexOrder ==
    [k \in 1 .. n_validators |-> IF k <= VotesAtQuorum THEN StampOf(k - 1) ELSE 0]

\* Every registered validator (indices 0 .. n-1) has stamped the message and
\* answered, no reply was forged or lost, and write has returned a
\* certificate.
AllRepliedValidly ==
    /\ pc = "done"
    /\ request.type = "Write"
    /\ result.tag = "Ok"
    /\ faults = 0
    /\ DOMAIN validators = 0 .. (n_validators - 1)
    /\ \A v \in DOMAIN validators :
          /\ responses[v].st \in {"taken", "dropped"}
          /\ store[v][request.namespace] # <<>>

\* C24: the certified timestamp of the certificate Client::write returns does
\* not depend on the order in which the replies arrive: with the validators'
\* timestamps fixed, it is the one obtained when the replies arrive in index
\* order.
C24_MedianIsArrivalOrderInvariant ==
    AllRepliedValidly =>
        MedianOf(result.val.timestamps) = MedianOf(TimestampsInIndexOrder)

\* ------------------------------------------------------------------- C25
\* C25: neither subscription channel keeps its producing task alive once the
\* consumer has closed it: after a send on the Record channel found it closed
\* the subscription task receives nothing more, and after a send on the
\* CertifiedRecord channel found it closed the aggregation task takes no
\* further record and builds no further certificate.
C25_ClosedChannelEndsProducer ==
    [][ /\ sub_task_done => UNCHANGED sub_socket
        /\ send_failed => UNCHANGED <<records_by_id, sending>> ]_vars

\* ------------------------------------------------------------------- C26
\* C26: Client::subscribe reports a failure instead of returning a stream:
\* when the request to some validator failed or timed out, the call returns
\* Err.
C26_SubscribeSurfacesFailures ==
    (/\ pc = "done"
     /\ request.type = "Subscribe"
     /\ \E i \in DOMAIN responses : responses[i].st = "failed")
        => result.tag = "Err"

\* ------------------------------------------------------------------- C27
\* The validator has a request it has not yet handled.
Pending == 0 \in DOMAIN responses /\ responses[0].st = "sent"

\* C27: a request the validator cannot parse gets no reply and leaves the
\* Store, the active-subscriptions set and the publisher queue unchanged, and
\* the validator goes on serving: a Write or Subscribe request that arrives
\* after it can be handled.
C27_UnparsableIsDropped ==
    /\ [][ (Pending /\ request.type = "Unparsable" /\ responses' # responses) =>
              /\ responses'[0] = Future("unanswered", NoBytes)
              /\ UNCHANGED validator_vars ]_vars
    /\ []((parse_errors > 0 /\ Pending /\ request.type = "Write")
             => ENABLED ValidatorHandleWrite(0, 1))
    /\ []((parse_errors > 0 /\ Pending /\ request.type = "Subscribe")
             => ENABLED ValidatorHandleSubscribe(0))

\* After two unparsable requests were dropped, a Write has been stored and
\* answered.
C27_Witness ==
    /\ parse_errors = 2
    /\ request.type = "Write"
    /\ responses[0].st = "replied"
    /\ store[0][request.namespace] # <<>>

UnavailableDigests(msg_id) ==
    { UnavailableMessage_digest([timestamp |-> t, msg_id |-> msg_id]) : t \in 0 .. MaxTime }

\* C29: every Unavailable vote read_message counts is a signature over the
\* requested msg_id: the unavailable aggregate never holds a signature over
\* another msg_id.
C29_UnavailableVotesNameRequest ==
    (request.type = "ReadMessage" /\ unavailable_quorum_signature # None) =>
        \A sig \in BagToSet(unavailable_quorum_signature.val) :
            sig.digest \in UnavailableDigests(request.msg_id)

\* ------------------------------------------------------------------- C30
\* C30: quorums intersect: for n >= 1, two sets of validators whose sizes
\* has_reached_quorum accepts share at least one validator.
C30_QuorumsIntersect ==
    (pc = "intersect" /\ result.tag = "Ok" /\ result.val[1] /\ result.val[2]) =>
        quorum_sets[1] \cap quorum_sets[2] # {}

\* ------------------------------------------------------------------- C31
\* C31: quorum is never reached with zero votes: has_reached_quorum(n, 0) is
\* false for every n >= 0.
C31_NoQuorumWithZeroVotes ==
    (pc = "quorum" /\ result.tag = "Ok" /\ votes = 0) => result.val = FALSE

\* ------------------------------------------------------------------- C32
\* C32: whatever distinct indices the validators were connected with, every
\* connected validator's index is smaller than the number of connected
\* validators, so no slot access timestamps[index] is out of bounds.
C32_SlotAccessInBounds ==
    /\ \A index \in DOMAIN validators : index < n_validators
    /\ result # Panic("index out of bounds")

\* ------------------------------------------------------------------- C33
\* The signature of record r verifies under the key of a connected validator
\* over the record digest in the subscribed namespace.
SignedByValidator(r) ==
    \E i \in DOMAIN validators :
        verify_signature(r.signature, validators[i],
                         record_digest(r.message, sub_topic.val, r.timestamp))

\* C33: every record the subscription stream yields, and every signature in
\* a certificate subscribe_certified emits, verifies under the public key of
\* a connected validator over the record digest.
C33_StreamedRecordsAreSigned ==
    sub_topic # None =>
        /\ \A k \in 1 .. Len(delivered) : SignedByValidator(delivered[k])
        /\ \A k \in 1 .. Len(EmittedCertificates) :
              \A sig \in BagToSet(EmittedCertificates[k].quorum_signature) :
                  \E i \in DOMAIN validators, t \in Range(EmittedCertificates[k].timestamps) :
                      verify_signature(sig, validators[i],
                          record_digest(EmittedCertificates[k].message, sub_topic.val, t))

\* ------------------------------------------------------------------- C34
\* The votes a certificate of Client::write counts: the signatures in its
\* aggregate.
CountedVotes(cert) == BagCardinality(cert.quorum_signature)

\* C34: Client::write returns as soon as the counted votes first satisfy the
\* quorum rule: when it succeeds with n >= 3, the number of counted votes
\* (signatures in the aggregate, non-zero slots of timestamps) is exactly the
\* quorum threshold, the smallest number of votes the rule accepts.
C34_WriteReturnsAtQuorum ==
    (/\ pc = "done"
     /\ request.type = "Write"
     /\ result.tag = "Ok"
     /\ n_validators >= 3)
        => /\ quorum(n_validators, CountedVotes(result.val))
           /\ ~quorum(n_validators, CountedVotes(result.val) - 1)
           /\ CountedVotes(result.val) =
                Len(result.val.timestamps) - CountOf(result.val.timestamps, 0)

C36_PublicationNeverBlocksWrite ==
    /\ [][ (Pending /\ request.type = "Write" /\ responses' # responses) =>
              /\ responses'[0].st = "replied"
              /\ responses'[0].bytes.type = "Record"
              /\ responses'[0].bytes.val.message = request.message
              /\ \E k \in 1 .. Len(store'[0][request.namespace]) :
                    store'[0][request.namespace][k][2] = responses'[0].bytes.val
              /\ Len(publisher_queue[0]) >= PublisherQueueCap
                    => publisher_queue' = publisher_queue ]_vars
    /\ [][ Len(publisher_queue'[0]) < Len(publisher_queue[0])
              => UNCHANGED <<store, responses>> ]_vars

\* The publisher queue is full of records stamped 1, and a Write to the
\* subscribed namespace handled at clock reading 2 is stored and answered but
\* not queued.
C36_Witness ==
    /\ Len(publisher_queue[0]) = PublisherQueueCap
    /\ \A k \in 1 .. Len(publisher_queue[0]) : publisher_queue[0][k][2].val.timestamp = 1
    /\ request.type = "Write"
    /\ request.namespace \in active_subscriptions[0]
    /\ responses[0].st = "replied"
    /\ responses[0].bytes.val.timestamp = 2
    /\ \E k \in 1 .. Len(store[0][request.namespace]) :
          store[0][request.namespace][k][2] = responses[0].bytes.val

\* ------------------------------------------------------------------- C37
\* C37: no enqueued publication is stranded: whenever the validator's poll
\* returns Pending the publisher queue is empty, so no (namespace, record)
\* pair is ever dropped together with the queue channel of the poll that
\* enqueued it.
C37_NoPublicationStranded == stranded = {}

\* ------------------------------------------------------------------- C38
\* C38: every write is certified on the subscription: once the aggregation
\* task of a SubscribeCertified stream over n >= 1 validators has taken the
\* records of all n validators for two writes of the same message, with no
\* certificate lost on the way to a consumer that still holds the stream, it
\* has emitted a
\* CertifiedRecord for the second write as well as for the first.
C38_SecondWriteCertified ==
    ( /\ validators_count # None
      /\ validators_count.val >= 1
      /\ Len(delivered) = 2 * validators_count.val
      /\ \A k \in 1 .. Len(delivered) : delivered[k].message = M1
      /\ sending = None
      /\ ~send_failed
      /\ ~certified_closed )
    => Len(EmittedCertificates) >= 2

\* ------------------------------------------------------------------- C39
\* C39: the aggregation map of subscribe_certified never holds more than 1024
\* message digests; a record of a digest the map does not hold, arriving
\* while the map is full, discards the bucket of the oldest-inserted digest
\* and no other; and the record of a digest the map does not hold, a
\* discarded digest included, starts a bucket that holds this one record.
C39_AggregationMapIsBoundedFIFO ==
    /\ [](Len(records_by_id) <= RecordsByIdCap)
    /\ [][ records_by_id' # records_by_id =>
             LET record == Head(record_sub)
                 id == message_digest(record.message, sub_topic.val)
                 held == \E k \in 1 .. Len(records_by_id) : records_by_id[k][1] = id
             IN  ~held =>
                   /\ records_by_id'[Len(records_by_id')] = <<id, <<record>>>>
                   /\ IF Len(records_by_id) = RecordsByIdCap
                      THEN records_by_id' = Append(Tail(records_by_id), <<id, <<record>>>>)
                      ELSE records_by_id' = Append(records_by_id, <<id, <<record>>>>) ]_vars

\* The map is full, the first message's digest was discarded when the map was
\* full and its record has arrived again: it is the newest bucket and holds
\* one record.
C39_Witness ==
    /\ sub_topic # None
    /\ Len(records_by_id) = RecordsByIdCap
    /\ records_by_id[RecordsByIdCap][1] = message_digest(Msg(1), sub_topic.val)
    /\ Len(records_by_id[RecordsByIdCap][2]) = 1
    /\ Cardinality({ k \in 1 .. Len(delivered) : delivered[k].message = Msg(1) }) = 2
    /\ Cardinality(SeenMessages) > RecordsByIdCap

\* ------------------------------------------------------------------- C40
\* The certificates of the ReadMessage calls that returned Available, in the
\* order of the calls.
AvailableCertificates(calls) ==
    LET available(call) == /\ call.result.tag = "Ok"
                           /\ call.result.val.type = "Available"
        kept == SelectSeq(calls, available)
    IN  [k \in 1 .. Len(kept) |-> kept[k].result.val.val]

\* A step of the client, as opposed to one of a validator.
ClientMoves == <<pc, request, result, log_records, certified_log>>'
                 # <<pc, request, result, log_records, certified_log>>

\* C40: read_certified performs Read and then one ReadMessage per returned
\* record, in Read order, with that record's message digest; a ReadMessage
\* that returns Available adds its certificate to the result, one that
\* returns Unavailable or fails with NoQuorum adds nothing and does not end
\* read_certified; and the result is exactly the certificates of the calls
\* that returned Available, in order.
C40_ReadCertifiedKeepsAvailable ==
    [][ ClientMoves =>
        /\ (certified_log # None /\ pc = "done" /\ request.type = "ReadRange"
              /\ result.tag = "Ok")
           => /\ pc' = "read_certified"
              /\ log_records' = result.val.records
              /\ certified_log' = Some(<<>>)
        /\ (pc = "read_certified" /\ log_records # <<>>)
           => /\ pc' = "read_message"
              /\ request'.type = "ReadMessage"
              /\ request'.namespace = request.namespace
              /\ request'.msg_id =
                   message_digest(Head(log_records).message, request.namespace)
              /\ UNCHANGED <<log_records, certified_log>>
        /\ (certified_log # None /\ pc = "done" /\ request.type = "ReadMessage"
              /\ result.tag \in {"Ok", "Err"})
           => /\ pc' = "read_certified"
              /\ log_records' = Tail(log_records)
              /\ certified_log' =
                   IF result.tag = "Ok" /\ result.val.type = "Available"
                   THEN Some(Append(certified_log.val, result.val.val))
                   ELSE certified_log
        /\ (pc = "read_certified" /\ log_records = <<>>)
           => /\ pc' = "done"
              /\ result' = Ok([records |-> AvailableCertificates(read_messages)]) ]_vars

\* read_certified has returned one certificate after two ReadMessage calls:
\* the first failed with NoQuorum, the second returned Available.
C40_Witness ==
    /\ pc = "done"
    /\ request.type = "ReadCertified"
    /\ Len(read_messages) = 2
    /\ read_messages[1].result.tag = "Err"
    /\ read_messages[1].result.err.type = "NoQuorum"
    /\ read_messages[2].result.tag = "Ok"
    /\ read_messages[2].result.val.type = "Available"
    /\ result = Ok([records |-> <<read_messages[2].result.val.val>>])

====
